---- MODULE Spec2Model ----
(***************************************************************************)
(* A model of the streaming assistant-message dispatcher                   *)
(* (presentAnthropicAssistantMessage) and of the stream that feeds it.     *)
(*                                                                         *)
(* JavaScript runs one synchronous segment at a time: a step of the model  *)
(* is one such segment, from a call or the resumption of an await to the   *)
(* next await or return.  An un-awaited recursive call at the end of a     *)
(* segment is the next segment (ctl = "call"); nothing else runs between.  *)
(***************************************************************************)
EXTENDS Integers, Sequences, FiniteSets, TLC

\* Bounds of the model.
MaxBlocks == 2
MaxFrames == 2
MaxContent == 2
MaxJsonLen == 7

VARIABLES
    abort,                                      \* cline.abort
    presentAssistantMessageLocked,              \* cline.presentAssistantMessageLocked
    presentAssistantMessageHasPendingUpdates,   \* cline.presentAssistantMessageHasPendingUpdates
    currentStreamingContentIndex,               \* cline.currentStreamingContentIndex (0-based)
    assistantMessageContent,                    \* cline.assistantMessageContent
    didCompleteReadingStream,                   \* cline.didCompleteReadingStream
    userMessageContentReady,                    \* cline.userMessageContentReady
    didRejectTool,                              \* cline.didRejectTool
    didAlreadyUseTool,                          \* cline.didAlreadyUseTool
    consecutiveMistakeCount,                    \* cline.consecutiveMistakeCount
    userMessageContent,                         \* cline.userMessageContent (the transcript)
    frames,         \* the invocations suspended at an await, each with its locals
    ctl,            \* "idle": the event loop is free; "call": a recursive call is next
    lastResult,     \* how the latest invocation's first segment ended (history)
    presented,      \* indexes whose presentation has started (history)
    ended,          \* indexes whose pass ended with the cursor advancing (history)
    handlerLog,     \* call ids for which a tool handler was invoked, in order (history)
    validationLog,  \* call ids that validateToolUse rejected, in order (history)
    delivered,      \* the types of the blocks as the stream delivered them (history)
    pendingToolUses,    \* AnthropicToolUseAccumulator.pendingToolUses, in insertion order
    accLast,            \* the accumulator's latest call and what it returned (history)
    accFed,             \* per call id, the kind of the latest registered start's
                        \* arguments, their serialization (nothing for {})
                        \* followed by the fragments offered since, and whether
                        \* a completeToolUse has returned null since (history)
    call,               \* the latest call of a stateless function of validation.ts
                        \* or of the bridge: its name, its arguments, its result
    streamingToolUses,          \* AnthropicToolHandler.streamingToolUses, in insertion order
    currentStreamingToolId,     \* AnthropicToolHandler.currentStreamingToolId
    handlerLast,                \* the tool handler's latest call and what it returned (history)
    toolNameToIdMap,            \* AnthropicToolHandler.toolNameToIdMap
    outstanding,                \* the conversions whose id no lookup has returned yet,
                                \* in order (history)
    configStore,    \* the persisted code-index settings: global state and secrets
    config,         \* the fields of the CodeIndexConfigManager instance
    loading,        \* the loadConfiguration call suspended at its await, if any
    configLast,     \* what the latest loadConfiguration returned, and the store
                    \* the instance's fields were loaded from (history)
    storeChanges,   \* how many times the persisted settings were changed
    localSettings,      \* CodeIndexSettings: the values shown in the fields
    modifiedFields,     \* CodeIndexSettings: the fields edited since the last save
    saveStatus,         \* CodeIndexSettings: "idle", "saving", "success" or "error"
    hasUnsavedChanges,  \* CodeIndexSettings: hasUnsavedChanges
    saveTimers,         \* the pending setTimeout callbacks that reset saveStatus
    saveRequests,       \* the saveCodeIndexSettingsAtomic messages not answered yet
    settingsLast        \* the component's latest event, and the message a
                        \* codeIndexSettingsSaved response answered (history)

dispatcherVars == <<abort, presentAssistantMessageLocked, presentAssistantMessageHasPendingUpdates,
          currentStreamingContentIndex, assistantMessageContent, didCompleteReadingStream,
          userMessageContentReady, didRejectTool, didAlreadyUseTool,
          consecutiveMistakeCount, userMessageContent, frames, ctl, lastResult,
          presented, ended, handlerLog, validationLog, delivered>>

accVars == <<pendingToolUses, accLast, accFed>>

libVars == <<call>>

toolHandlerVars == <<streamingToolUses, currentStreamingToolId, handlerLast,
                     toolNameToIdMap, outstanding>>

\* What the dispatcher never touches: the state of the other components.
configVars == <<configStore, config, loading, configLast, storeChanges>>

settingsVars == <<localSettings, modifiedFields, saveStatus, hasUnsavedChanges,
                  saveTimers, saveRequests, settingsLast>>

offTaskVars == <<accVars, libVars, toolHandlerVars, configVars, settingsVars>>

vars == <<dispatcherVars, offTaskVars>>

taskVars == <<presentAssistantMessageLocked, presentAssistantMessageHasPendingUpdates,
              currentStreamingContentIndex, assistantMessageContent,
              userMessageContentReady, didRejectTool, didAlreadyUseTool,
              consecutiveMistakeCount, userMessageContent>>

histVars == <<presented, ended, handlerLog, validationLog, delivered>>

-----------------------------------------------------------------------------
\* Content blocks.

NoId == 0

\* currentStreamingToolId when it is null.
NoCurrentTool == -1

\* typeof of a value of the given kind: arrays, null and objects that refer
\* to themselves are all "object"; the empty string and the strings of at
\* least one character are "string".
TypeOf(kind) ==
    IF kind \in {"object", "array", "null", "circular"} THEN "object"
    ELSE IF kind \in {"empty", "nonempty"} THEN "string"
    ELSE kind

\* input is the kind of the block's input: "object" for an arguments object,
\* "string" for a JSON string that stands where the arguments should be.
TextContent(p, c) ==
    [type |-> "text", partial |-> p, id |-> NoId, name |-> "none", content |-> c,
     input |-> "undefined"]

AnthropicToolUse(i, n, p, c) ==
    [type |-> "anthropic_tool_use", partial |-> p, id |-> i, name |-> n, content |-> c,
     input |-> "object"]

ToolUse(n, p) ==
    [type |-> "tool_use", partial |-> p, id |-> NoId, name |-> n, content |-> 1,
     input |-> "undefined"]

\* A structured tool call whose input is a string, as completeToolUse returns
\* it when the accumulated text is a JSON string.
StringInputToolUse(i, n, p, c) == [AnthropicToolUse(i, n, p, c) EXCEPT !.input = "string"]

\* The kind of a call id of the model: ids are 1, 2, ..., strings of at least
\* one character; NoId stands for the empty string.
IdKind(id) == IF id = NoId THEN "empty" ELSE "nonempty"

\* A value as the validators see it: the kind of the value itself, its type
\* tag, the kind of its id, the typeof of its name, the kind of its input and
\* the typeof of its partial flag.
Candidate(whole, type, id, name, input, partial) ==
    [whole |-> whole, type |-> type, id |-> id, name |-> name, input |-> input,
     partial |-> partial]

\* A block of the model as the validators see it: its name is a string and
\* its partial flag a boolean.
AsCandidate(block) ==
    Candidate("object", block.type, IdKind(block.id), "string", block.input, "boolean")

\* validateToolUseId, on the kind of the id: a string of at least one character.
validateToolUseId(id) == TypeOf(id) = "string" /\ id # "empty"

\* validateToolInput, on the kind of the input: typeof input is "object",
\* input is not null, and JSON.stringify does not throw.
validateToolInput(input) ==
    /\ TypeOf(input) = "object"
    /\ input # "null"
    /\ input # "circular"

\* validateAnthropicToolUse: a truthy value whose typeof is "object", the type
\* tag, a string id, a string name, an input whose typeof is "object", a
\* boolean partial.
validateAnthropicToolUse(toolUse) ==
    /\ toolUse.whole \notin {"null", "undefined"}
    /\ TypeOf(toolUse.whole) = "object"
    /\ toolUse.type = "anthropic_tool_use"
    /\ TypeOf(toolUse.id) = "string"
    /\ toolUse.name = "string"
    /\ TypeOf(toolUse.input) = "object"
    /\ toolUse.partial = "boolean"

\* The tool names the dispatcher's switch has a case for.
HandlerNames ==
    {"read_file", "write_to_file", "list_files", "search_files", "execute_command",
     "search_and_replace", "insert_content", "attempt_completion",
     "ask_followup_question"}

\* The names of the tools advertised to the model.
EXTEND_ANTHROPIC_TOOLS ==
    {"read_file", "fetch_instructions", "search_files", "list_files",
     "list_code_definition_names", "apply_diff", "write_to_file", "insert_content",
     "search_and_replace", "browser_action", "execute_command", "use_mcp_tool",
     "access_mcp_resource", "ask_followup_question", "attempt_completion",
     "switch_mode", "new_task"}

\* The tool names the tag parser recognises (the registry's tool names).
KnownToolNames ==
    HandlerNames \cup {"browser_action", "fetch_instructions", "list_code_definition_names",
                       "apply_diff", "use_mcp_tool", "access_mcp_resource", "switch_mode",
                       "new_task"}

\* The names the stream delivers in this model: one with a handler, one the
\* parser knows but the dispatcher has no case for, one the parser does not know.
StreamNames == {"read_file", "browser_action", "frobnicate"}

\* convertAnthropicToolUseToXml renders <name>...</name>; the root tag is the name.
XmlRootName(block) == block.name

\* parseAssistantMessage(xml).find(b => b.type === "tool_use"): a closed tag of a
\* known tool name yields a complete tool_use block, anything else none.
ParsesAsToolUse(root) == root \in KnownToolNames

BridgedToolUse(block) == ToolUse(XmlRootName(block), FALSE)

\* The arguments of a call as convertAnthropicToolUseToXml reads them: the
\* entries of input in key order, each a key and a value.  A value is a
\* string, null, undefined, a number, an array of strings, or an array of
\* objects {path: ...} given by its paths.
\* kind is "string" or "number" (s is the text), "null", "undefined", "array"
\* (items are the strings) or "files" (items are the paths).
ArgValue(kind, s, items) == [kind |-> kind, s |-> s, items |-> items]

Entry(key, value) == [key |-> key, v |-> value]

\* An element of the rendered text: <key>, its content, </key>.  The layout
\* is "lines" when the content stands on lines of its own between the tags,
\* "inline" when it follows the opening tag directly, "nested" when the
\* content is the child elements.
Tag(key, layout, text, children) ==
    [key |-> key, layout |-> layout, text |-> text, children |-> children]

\* Lines 63, 71: input.args && Array.isArray(input.args)
HasArgsArray(input) ==
    \E i \in 1..Len(input) :
        input[i].key = "args" /\ input[i].v.kind \in {"array", "files"}

\* Lines 64-76: <args>, one <file> per element with <key>value</key> for
\* each of its entries, </args>.
ArgsElement(input) ==
    LET i == CHOOSE i \in 1..Len(input) : input[i].key = "args"
        files == input[i].v.items
    IN Tag("args", "nested", "",
           [j \in 1..Len(files) |->
               Tag("file", "nested", "", <<Tag("path", "inline", files[j], <<>>)>>)])

\* Lines 80-97: the elements one entry renders to.  JSON.stringify of an
\* object {path: p} is written {p}.
EntryElements(e) ==
    IF e.v.kind = "string" THEN <<Tag(e.key, "lines", e.v.s, <<>>)>>
    ELSE IF e.v.kind = "array"
         THEN [j \in 1..Len(e.v.items) |-> Tag(e.key, "lines", e.v.items[j], <<>>)]
    ELSE IF e.v.kind = "files"
         THEN [j \in 1..Len(e.v.items) |->
                  Tag(e.key, "lines", "{" \o e.v.items[j] \o "}", <<>>)]
    ELSE IF e.v.kind \in {"null", "undefined"} THEN <<>>
    ELSE <<Tag(e.key, "lines", e.v.s, <<>>)>>

RECURSIVE AllEntryElements(_)
AllEntryElements(input) ==
    IF input = <<>> THEN <<>>
    ELSE EntryElements(Head(input)) \o AllEntryElements(Tail(input))

\* convertAnthropicToolUseToXml (lines 55-115): the root element named after
\* the tool; with an args array its only child is the args element.
convertAnthropicToolUseToXml(name, input) ==
    Tag(name, "nested", "",
        IF HasArgsArray(input) THEN <<ArgsElement(input)>>
        ELSE AllEntryElements(input))

\* A result text that is missing (undefined or null).
NoText == "<missing>"

\* An empty or missing result reported as an error.
ToolResponseEmptyIsError(toolUseId, result, isError) ==
    [type |-> "tool_result", tool_use_id |-> toolUseId,
     content |-> IF result \in {"", NoText} THEN "" ELSE result,
     is_error |-> isError \/ result \in {"", NoText}]

\* convertXmlResultToAnthropicToolResponse(toolUseId, result, isError):
\* content is result || "".
ToolResponse(toolUseId, result, isError) ==
    [type |-> "tool_result", tool_use_id |-> toolUseId,
     content |-> IF result \in {"", NoText} THEN "" ELSE result,
     is_error |-> isError]

-----------------------------------------------------------------------------
\* JavaScript values, JSON text and tool names, as far as the accumulator
\* tells them apart.

\* A value: an object with at most the one key "path" (has: the key is there,
\* s: its string value, a sequence of letters), the empty array, a string,
\* null, or an object that refers to itself.
JsValue(kind, has, s) == [kind |-> kind, has |-> has, s |-> s]

EmptyObject == JsValue("object", FALSE, <<>>)
PathObject(s) == JsValue("object", TRUE, s)
EmptyArray == JsValue("array", FALSE, <<>>)
JsString(s) == JsValue("string", FALSE, s)
JsNull == JsValue("null", FALSE, <<>>)
Circular == JsValue("circular", FALSE, <<>>)

\* JSON text is a sequence of tokens: { } [ ] , null, K for "path": , q for a
\* double quote, x for a letter.
\* JSON.stringify(v) for a value it accepts.
JsonStringify(v) ==
    CASE v.kind = "object" /\ ~v.has -> <<"{", "}">>
      [] v.kind = "object" /\ v.has -> <<"{", "K", "q">> \o v.s \o <<"q", "}">>
      [] v.kind = "array" -> <<"[", "]">>
      [] v.kind = "string" -> <<"q">> \o v.s \o <<"q">>
      [] OTHER -> <<"null">>

\* JSON.parse as a scanner: st is the state after the first i - 1 tokens, v
\* the value built so far.  A repeated key keeps its last value.
RECURSIVE JsonScan(_, _, _, _)
JsonScan(text, i, st, v) ==
    IF i > Len(text) THEN [st |-> st, v |-> v]
    ELSE LET c == text[i] IN
         CASE st = "start" /\ c = "{" -> JsonScan(text, i + 1, "obj0", EmptyObject)
           [] st = "start" /\ c = "[" -> JsonScan(text, i + 1, "arr0", EmptyArray)
           [] st = "start" /\ c = "q" -> JsonScan(text, i + 1, "topstr", JsString(<<>>))
           [] st = "start" /\ c = "null" -> JsonScan(text, i + 1, "done", JsNull)
           [] st \in {"obj0", "comma"} /\ c = "K" -> JsonScan(text, i + 1, "key", v)
           [] st \in {"obj0", "member"} /\ c = "}" -> JsonScan(text, i + 1, "done", v)
           [] st = "key" /\ c = "q" -> JsonScan(text, i + 1, "str", PathObject(<<>>))
           [] st \in {"str", "topstr"} /\ c = "x" ->
                  JsonScan(text, i + 1, st, [v EXCEPT !.s = Append(@, "x")])
           [] st = "str" /\ c = "q" -> JsonScan(text, i + 1, "member", v)
           [] st = "topstr" /\ c = "q" -> JsonScan(text, i + 1, "done", v)
           [] st = "member" /\ c = "," -> JsonScan(text, i + 1, "comma", v)
           [] st = "arr0" /\ c = "]" -> JsonScan(text, i + 1, "done", v)
           [] OTHER -> [st |-> "fail", v |-> v]

\* JSON.parse(text) throws.
JsonParseThrows(text) == JsonScan(text, 1, "start", JsNull).st # "done"

\* JSON.parse(text) when it does not throw.
JsonParse(text) == JsonScan(text, 1, "start", JsNull).v

\* A tool name is a sequence of characters; these are the ones matching
\* [a-zA-Z0-9_-] among the characters of the model.
NameChars == {"r", "F", "7", "_", "-"}

\* The name returned as it came.
sanitizeToolNameUnchanged(name) == name

\* sanitizeToolName: every other character becomes an underscore.
sanitizeToolName(name) ==
    [i \in 1..Len(name) |-> IF name[i] \in NameChars THEN name[i] ELSE "_"]

\* What completeToolUse returns: a chunk, or null.
AnthropicToolUseChunk(id, name, input) ==
    [type |-> "anthropic_tool_use", id |-> id, name |-> name, input |-> input]

Null == [type |-> "null", id |-> NoId, name |-> <<>>, input |-> JsNull]

\* The return value of a method that returns nothing.
Undefined == [type |-> "undefined", id |-> NoId, name |-> <<>>, input |-> JsNull]

-----------------------------------------------------------------------------
\* Helpers on the suspended invocations.

ExecPcs == {"import", "closeBrowser", "getState", "tool"}

\* browserClosed: the awaited closeBrowser of this invocation has returned.
Frame(pc, block, orig) ==
    [pc |-> pc, block |-> block, originalBlock |-> orig,
     at |-> currentStreamingContentIndex, browserClosed |-> FALSE]

RemoveAt(s, i) == [j \in 1..(Len(s) - 1) |-> IF j < i THEN s[j] ELSE s[j + 1]]

BlockAt(i) == assistantMessageContent[i + 1]

InitComponents ==
    /\ abort = FALSE
    /\ presentAssistantMessageLocked = FALSE
    /\ presentAssistantMessageHasPendingUpdates = FALSE
    /\ currentStreamingContentIndex = 0
    /\ assistantMessageContent = <<>>
    /\ didCompleteReadingStream = FALSE
    /\ userMessageContentReady = FALSE
    /\ didRejectTool = FALSE
    /\ didAlreadyUseTool = FALSE
    /\ consecutiveMistakeCount = 0
    /\ userMessageContent = <<>>
    /\ frames = <<>>
    /\ ctl = "idle"
    /\ lastResult = "none"
    /\ presented = {}
    /\ ended = {}
    /\ handlerLog = <<>>
    /\ validationLog = <<>>
    /\ delivered = <<>>
    /\ pendingToolUses = <<>>
    /\ accLast = [op |-> "none", id |-> NoId, arg |-> "none", frag |-> <<>>,
                  drained |-> <<>>, ret |-> Undefined]
    /\ accFed = [id \in {} |-> <<>>]
    /\ streamingToolUses = <<>>
    /\ currentStreamingToolId = NoCurrentTool
    /\ handlerLast = [op |-> "none", id |-> NoId, frag |-> <<>>, drained |-> <<>>]
    /\ toolNameToIdMap = [name \in {} |-> NoId]
    /\ outstanding = <<>>
    /\ localSettings = [codebaseIndexQdrantUrl |-> "http://localhost:6333",
                        codeIndexOpenAiKey |-> "undefined"]
    /\ modifiedFields = {}
    /\ saveStatus = "idle"
    /\ hasUnsavedChanges = FALSE
    /\ saveTimers = 0
    /\ saveRequests = <<>>
    /\ settingsLast = [op |-> "mount", success |-> FALSE,
                       answered |-> [codebaseIndexQdrantUrl |-> "", codeIndexOpenAiKey |-> NoText]]

-----------------------------------------------------------------------------
\* CodeIndexConfigManager.  A URL is "" or "u", a key "" or "k", a model id ""
\* (none chosen) or "m2".

\* What a load finds when nothing is stored (lines 146-153, 219-226).
DefaultStore ==
    [enabled |-> FALSE, provider |-> "openai", modelId |-> "", baseUrl |-> "",
     qdrantUrl |-> "u", openAiKey |-> "", compatBaseUrl |-> "", compatApiKey |-> ""]

\* What can be stored.
Stores ==
    [enabled : BOOLEAN, provider : {"openai", "ollama", "openai-compatible"},
     modelId : {"", "m2"}, baseUrl : {"", "u"}, qdrantUrl : {"", "u"},
     openAiKey : {"", "k"}, compatBaseUrl : {"", "u"}, compatApiKey : {"", "k"}]

\* _loadAndSetConfiguration / _loadAndSetConfigurationAsync: the instance's
\* fields, from the settings read before the secrets (first) and from the
\* secrets and the settings read after them (then).  No Qdrant API key and no
\* model dimension is stored in this model.
LoadedConfig(first, then) ==
    [isEnabled |-> first.enabled,
     qdrantUrl |-> first.qdrantUrl,
     qdrantApiKey |-> "",
     openAiKey |-> then.openAiKey,
     embedderProvider |-> first.provider,
     modelId |-> first.modelId,
     ollamaBaseUrl |-> first.baseUrl,
     compat |-> IF then.compatBaseUrl # "" /\ then.compatApiKey # ""
                THEN [has |-> TRUE, baseUrl |-> then.compatBaseUrl,
                      apiKey |-> then.compatApiKey]
                ELSE [has |-> FALSE, baseUrl |-> "", apiKey |-> ""]]

\* isConfigured (lines 350-385).
isConfigured(c) ==
    IF c.embedderProvider = "openai" THEN c.openAiKey # "" /\ c.qdrantUrl # ""
    ELSE IF c.embedderProvider = "ollama" THEN c.ollamaBaseUrl # "" /\ c.qdrantUrl # ""
    ELSE c.compat.has /\ c.compat.baseUrl # "" /\ c.compat.apiKey # "" /\ c.qdrantUrl # ""

\* Lines 314-326: the snapshot loadConfiguration takes before it loads.
PreviousConfigSnapshot(c) ==
    [enabled |-> c.isEnabled, configured |-> isConfigured(c),
     embedderProvider |-> c.embedderProvider, modelId |-> c.modelId,
     openAiKey |-> c.openAiKey, ollamaBaseUrl |-> c.ollamaBaseUrl,
     openAiCompatibleBaseUrl |-> c.compat.baseUrl,
     openAiCompatibleApiKey |-> c.compat.apiKey,
     qdrantUrl |-> c.qdrantUrl, qdrantApiKey |-> c.qdrantApiKey]

\* The vector dimension of a model; "" resolves to the provider's default
\* model, whose dimension is 1 here, and "m2" has dimension 2.
ModelDimension(provider, modelId) == IF modelId = "m2" THEN 2 ELSE 1

\* _hasVectorDimensionChanged (lines 477-498).
HasVectorDimensionChanged(prev, c) ==
    IF prev.embedderProvider = c.embedderProvider /\ prev.modelId = c.modelId
    THEN FALSE
    ELSE ModelDimension(prev.embedderProvider, prev.modelId)
             # ModelDimension(c.embedderProvider, c.modelId)

\* A restart whenever the feature is enabled and configured.
BecomesReadyWhateverBefore(prev, c) == c.isEnabled /\ isConfigured(c)

\* Lines 406-409: from disabled or unconfigured to enabled and configured.
BecomesReady(prev, c) ==
    (~prev.enabled \/ ~prev.configured) /\ c.isEnabled /\ isConfigured(c)

\* doesConfigChangeRequireRestart (lines 392-472).
doesConfigChangeRequireRestart(prev, c) ==
    IF BecomesReady(prev, c) THEN TRUE
    ELSE IF ~prev.enabled /\ ~c.isEnabled THEN FALSE
    ELSE IF ~prev.configured /\ ~isConfigured(c) THEN FALSE
    ELSE IF c.isEnabled \/ prev.enabled
    THEN \/ prev.embedderProvider # c.embedderProvider
         \/ HasVectorDimensionChanged(prev, c)
         \/ c.embedderProvider = "openai" /\ prev.openAiKey # c.openAiKey
         \/ c.embedderProvider = "ollama" /\ prev.ollamaBaseUrl # c.ollamaBaseUrl
         \/ /\ c.embedderProvider = "openai-compatible"
            /\ \/ prev.openAiCompatibleBaseUrl # c.compat.baseUrl
               \/ prev.openAiCompatibleApiKey # c.compat.apiKey
         \/ prev.qdrantUrl # c.qdrantUrl
         \/ prev.qdrantApiKey # c.qdrantApiKey
    ELSE FALSE

NotLoading == [active |-> FALSE, snapshot |-> PreviousConfigSnapshot(LoadedConfig(DefaultStore, DefaultStore)),
               first |-> DefaultStore]

\* Lines 23-26: the constructor loads the instance's fields from the store.
Constructed(store) ==
    /\ configStore = store
    /\ config = LoadedConfig(store, store)
    /\ loading = NotLoading
    /\ configLast = [op |-> "new", requiresRestart |-> FALSE,
                     from |-> [ok |-> TRUE, store |-> store]]
    /\ storeChanges = 0

\* No stateless function is being applied, and nothing is stored.
Init ==
    /\ InitComponents
    /\ call = [fn |-> "none", done |-> FALSE]
    /\ Constructed(DefaultStore)

-----------------------------------------------------------------------------
\* The conditions of presentAnthropicAssistantMessage.

\* The abort check left out.
AbortIgnored == FALSE

AbortCheck == abort

\* The lock check left out.
LockNeverHeld == FALSE

LockHeld == presentAssistantMessageLocked

AtEnd == currentStreamingContentIndex >= Len(assistantMessageContent)

\* The reply marked ready whether or not the stream has ended.
ReadyWhenDrainedAlways == TRUE
\* Lines 32-34: userMessageContentReady after an invocation that finds no block.
ReadyWhenDrained == userMessageContentReady \/ didCompleteReadingStream

\* Only a rejection suppresses the later blocks.
SuppressedOnlyOnReject == didRejectTool

Suppressed == didRejectTool \/ didAlreadyUseTool

\* The cursor moving past complete blocks only.
ShouldAdvanceOnlyComplete(partial, rejected, used) == ~partial
\* Line 362.
ShouldAdvance(partial, rejected, used) == ~partial \/ rejected \/ used

\* The browser session left open for every tool.
ClosesBrowserNever(name) == FALSE
\* Line 185: the session is closed for every tool but browser_action.
ClosesBrowser(name) == name # "browser_action"

\* The cursor moves by two.
NextIndexSkips == currentStreamingContentIndex + 2

NextIndex == currentStreamingContentIndex + 1

\* The mistake counter is not incremented.
ValidationFailureCountUnchanged == consecutiveMistakeCount

ValidationFailureCount == consecutiveMistakeCount + 1

\* Lines 207-212.
ValidationErrorResponse(block) == ToolResponse(block.id, "validation error", TRUE)

\* The failure is reported as a success.
ToolErrorResponseNotFlagged(block) ==
    ToolResponse(block.id, "Tool execution failed", FALSE)

\* Lines 311-315.
ToolErrorResponse(block) == ToolResponse(block.id, "Tool execution failed", TRUE)

\* Lines 326-331.
ConversionErrorResponse(block) ==
    ToolResponse(block.id, "Failed to convert Anthropic tool use to XML format", TRUE)

\* The response keyed by no call id.
ToolResultResponseUnkeyed(block, result, textHasErrorWord) ==
    ToolResponse(NoId, result, textHasErrorWord)

\* Lines 279-297: the texts of toolResults joined; is_error is whether one of
\* them holds the word "Error".
ToolResultResponse(block, result, textHasErrorWord) ==
    ToolResponse(block.id, result, textHasErrorWord)

\* presentAssistantMessage called with the lock held: it records a pending
\* update and returns.
LegacyPendingUpdates == TRUE

Entering == ctl \in {"idle", "call"}

CanSuspend == Len(frames) < MaxFrames

\* Lines 359-377: release the lock, advance the cursor, start the follow-up.
\* rejected/used are the flags' values at that point, pending the value of
\* presentAssistantMessageHasPendingUpdates.
FinishPass(partial, rejected, used, pending) ==
    /\ presentAssistantMessageLocked' = FALSE
    /\ IF ShouldAdvance(partial, rejected, used)
       THEN /\ userMessageContentReady' =
                   (userMessageContentReady
                    \/ currentStreamingContentIndex = Len(assistantMessageContent) - 1)
            /\ currentStreamingContentIndex' = NextIndex
            /\ ended' = ended \cup {currentStreamingContentIndex}
            /\ ctl' = IF NextIndex < Len(assistantMessageContent) \/ pending
                      THEN "call" ELSE "idle"
       ELSE /\ UNCHANGED <<userMessageContentReady, currentStreamingContentIndex, ended>>
            /\ ctl' = IF pending THEN "call" ELSE "idle"

\* Lines 308, 322: put the original block back at the cursor.
Restored(f) ==
    [assistantMessageContent EXCEPT ![currentStreamingContentIndex + 1] = f.originalBlock]

-----------------------------------------------------------------------------
\* The first segment of an invocation (an external one, or the recursive call).

\* Lines 19-21.
EnterAbort ==
    /\ Entering
    /\ AbortCheck
    /\ lastResult' = "aborted"
    /\ ctl' = "idle"
    /\ UNCHANGED <<offTaskVars, abort, didCompleteReadingStream, taskVars, frames, histVars>>

\* Lines 23-26.
EnterLocked ==
    /\ Entering
    /\ ~AbortCheck
    /\ LockHeld
    /\ presentAssistantMessageHasPendingUpdates' = TRUE
    /\ lastResult' = "deferred"
    /\ ctl' = "idle"
    /\ UNCHANGED <<offTaskVars, abort, didCompleteReadingStream, presentAssistantMessageLocked,
                   currentStreamingContentIndex, assistantMessageContent,
                   userMessageContentReady, didRejectTool, didAlreadyUseTool,
                   consecutiveMistakeCount, userMessageContent, frames, histVars>>

\* Lines 28-37.
EnterDrained ==
    /\ Entering
    /\ ~AbortCheck
    /\ ~LockHeld
    /\ AtEnd
    /\ presentAssistantMessageHasPendingUpdates' = FALSE
    /\ userMessageContentReady' = ReadyWhenDrained
    /\ presentAssistantMessageLocked' = FALSE
    /\ lastResult' = "drained"
    /\ ctl' = "idle"
    /\ UNCHANGED <<offTaskVars, abort, didCompleteReadingStream, currentStreamingContentIndex,
                   assistantMessageContent, didRejectTool, didAlreadyUseTool,
                   consecutiveMistakeCount, userMessageContent, frames, histVars>>

\* The guard shared by the cases that read the block at the cursor (line 39).
ReadsBlock(type) ==
    /\ Entering
    /\ ~AbortCheck
    /\ ~LockHeld
    /\ ~AtEnd
    /\ BlockAt(currentStreamingContentIndex).type = type

\* Lines 42-46, then 359-377.
EnterTextSuppressed ==
    /\ ReadsBlock("text")
    /\ Suppressed
    /\ presentAssistantMessageHasPendingUpdates' = FALSE
    /\ FinishPass(BlockAt(currentStreamingContentIndex).partial, didRejectTool,
            didAlreadyUseTool, FALSE)
    /\ lastResult' = "skipped"
    /\ UNCHANGED <<offTaskVars, abort, didCompleteReadingStream, assistantMessageContent,
                   didRejectTool, didAlreadyUseTool, consecutiveMistakeCount,
                   userMessageContent, frames, presented, handlerLog, validationLog, delivered>>

\* Lines 42-77: cline.say is called and awaited.
EnterText ==
    /\ ReadsBlock("text")
    /\ ~Suppressed
    /\ CanSuspend
    /\ presentAssistantMessageLocked' = TRUE
    /\ presentAssistantMessageHasPendingUpdates' = FALSE
    /\ frames' = Append(frames, Frame("say", BlockAt(currentStreamingContentIndex),
                                      BlockAt(currentStreamingContentIndex)))
    /\ presented' = presented \cup {currentStreamingContentIndex}
    /\ lastResult' = "text"
    /\ ctl' = "idle"
    /\ UNCHANGED <<offTaskVars, abort, didCompleteReadingStream, currentStreamingContentIndex,
                   assistantMessageContent, userMessageContentReady, didRejectTool,
                   didAlreadyUseTool, consecutiveMistakeCount, userMessageContent,
                   ended, handlerLog, validationLog, delivered>>

\* Lines 80-83, then 359-377.
EnterToolSuppressed ==
    /\ ReadsBlock("anthropic_tool_use")
    /\ Suppressed
    /\ presentAssistantMessageHasPendingUpdates' = FALSE
    /\ FinishPass(BlockAt(currentStreamingContentIndex).partial, didRejectTool,
            didAlreadyUseTool, FALSE)
    /\ lastResult' = "skipped"
    /\ UNCHANGED <<offTaskVars, abort, didCompleteReadingStream, assistantMessageContent,
                   didRejectTool, didAlreadyUseTool, consecutiveMistakeCount,
                   userMessageContent, frames, presented, handlerLog, validationLog, delivered>>

\* Lines 85-95, 323-335: the tag form holds no tool_use block.
EnterToolUnconvertible ==
    /\ ReadsBlock("anthropic_tool_use")
    /\ ~Suppressed
    /\ ~ParsesAsToolUse(XmlRootName(BlockAt(currentStreamingContentIndex)))
    /\ presentAssistantMessageHasPendingUpdates' = FALSE
    /\ userMessageContent' =
           Append(userMessageContent,
                  ConversionErrorResponse(BlockAt(currentStreamingContentIndex)))
    /\ didAlreadyUseTool' = TRUE
    /\ FinishPass(BlockAt(currentStreamingContentIndex).partial, didRejectTool, TRUE, FALSE)
    /\ presented' = presented \cup {currentStreamingContentIndex}
    /\ lastResult' = "fallback"
    /\ UNCHANGED <<offTaskVars, abort, didCompleteReadingStream, assistantMessageContent,
                   didRejectTool, consecutiveMistakeCount, frames, handlerLog,
                   validationLog, delivered>>

\* Lines 85-122: the live block is replaced by its tag form; the imports are awaited.
EnterTool ==
    /\ ReadsBlock("anthropic_tool_use")
    /\ ~Suppressed
    /\ ParsesAsToolUse(XmlRootName(BlockAt(currentStreamingContentIndex)))
    /\ CanSuspend
    /\ presentAssistantMessageLocked' = TRUE
    /\ presentAssistantMessageHasPendingUpdates' = FALSE
    /\ assistantMessageContent' =
           [assistantMessageContent EXCEPT ![currentStreamingContentIndex + 1] =
                BridgedToolUse(BlockAt(currentStreamingContentIndex))]
    /\ frames' = Append(frames, Frame("import", BlockAt(currentStreamingContentIndex),
                                      BlockAt(currentStreamingContentIndex)))
    /\ presented' = presented \cup {currentStreamingContentIndex}
    /\ lastResult' = "tool"
    /\ ctl' = "idle"
    /\ UNCHANGED <<offTaskVars, abort, didCompleteReadingStream, currentStreamingContentIndex,
                   userMessageContentReady, didRejectTool, didAlreadyUseTool,
                   consecutiveMistakeCount, userMessageContent, ended, handlerLog,
                   validationLog, delivered>>

\* Lines 352-356: presentAssistantMessage is called with the lock held and awaited.
EnterTagToolUse ==
    /\ ReadsBlock("tool_use")
    /\ CanSuspend
    /\ presentAssistantMessageLocked' = TRUE
    /\ presentAssistantMessageHasPendingUpdates' = LegacyPendingUpdates
    /\ frames' = Append(frames, Frame("legacy", BlockAt(currentStreamingContentIndex),
                                      BlockAt(currentStreamingContentIndex)))
    /\ lastResult' = "legacy"
    /\ ctl' = "idle"
    /\ UNCHANGED <<offTaskVars, abort, didCompleteReadingStream, currentStreamingContentIndex,
                   assistantMessageContent, userMessageContentReady, didRejectTool,
                   didAlreadyUseTool, consecutiveMistakeCount, userMessageContent,
                   histVars>>

-----------------------------------------------------------------------------
\* The segments that resume a suspended invocation.

Resumes(i, pcs) ==
    /\ ctl = "idle"
    /\ i \in 1..Len(frames)
    /\ frames[i].pc \in pcs

\* Line 77 returns, then 359-377.
ResumeSay(i) ==
    /\ Resumes(i, {"say"})
    /\ FinishPass(frames[i].block.partial, didRejectTool, didAlreadyUseTool,
                  presentAssistantMessageHasPendingUpdates)
    /\ frames' = RemoveAt(frames, i)
    /\ UNCHANGED <<offTaskVars, abort, didCompleteReadingStream,
                   presentAssistantMessageHasPendingUpdates, assistantMessageContent,
                   didRejectTool, didAlreadyUseTool, consecutiveMistakeCount,
                   userMessageContent, lastResult, presented, handlerLog, validationLog, delivered>>

\* Lines 109-192: the imports are done; the browser session is closed (awaited)
\* unless the tool is browser_action, for which the state is fetched next.
ResumeImport(i) ==
    /\ Resumes(i, {"import"})
    /\ frames' = [frames EXCEPT ![i].pc =
                      IF ClosesBrowser(XmlRootName(frames[i].block))
                      THEN "closeBrowser" ELSE "getState"]
    /\ UNCHANGED <<offTaskVars, abort, didCompleteReadingStream, taskVars, ctl, lastResult, histVars>>

\* Lines 186-195: closeBrowser returns; usage is recorded; the state is fetched.
ResumeCloseBrowser(i) ==
    /\ Resumes(i, {"closeBrowser"})
    /\ frames' = [frames EXCEPT ![i].pc = "getState", ![i].browserClosed = TRUE]
    /\ UNCHANGED <<offTaskVars, abort, didCompleteReadingStream, taskVars, ctl, lastResult, histVars>>

\* Lines 195-216: validateToolUse throws; the function returns from inside the try.
ValidateFail(i) ==
    /\ Resumes(i, {"getState"})
    /\ consecutiveMistakeCount' = ValidationFailureCount
    /\ userMessageContent' =
           Append(userMessageContent, ValidationErrorResponse(frames[i].block))
    /\ didAlreadyUseTool' = TRUE
    /\ validationLog' = Append(validationLog, frames[i].block.id)
    /\ frames' = RemoveAt(frames, i)
    /\ UNCHANGED <<offTaskVars, abort, didCompleteReadingStream, presentAssistantMessageLocked,
                   presentAssistantMessageHasPendingUpdates,
                   currentStreamingContentIndex, assistantMessageContent,
                   userMessageContentReady, didRejectTool, ctl, lastResult,
                   presented, ended, handlerLog, delivered>>

\* Lines 195-204, 221-272: validation passes and the tool's handler is called.
ValidateOkInvoke(i) ==
    /\ Resumes(i, {"getState"})
    /\ XmlRootName(frames[i].block) \in HandlerNames
    /\ frames' = [frames EXCEPT ![i].pc = "tool"]
    /\ handlerLog' = Append(handlerLog, frames[i].block.id)
    /\ UNCHANGED <<offTaskVars, abort, didCompleteReadingStream, taskVars, ctl, lastResult,
                   presented, ended, validationLog, delivered>>

\* Lines 279-303, 322, 359-377: the response is appended, the block restored.
Respond(i, response, rejected) ==
    /\ didRejectTool' = (didRejectTool \/ rejected)
    /\ userMessageContent' = Append(userMessageContent, response)
    /\ didAlreadyUseTool' = TRUE
    /\ assistantMessageContent' = Restored(frames[i])
    /\ FinishPass(frames[i].block.partial, didRejectTool \/ rejected, TRUE,
                  presentAssistantMessageHasPendingUpdates)
    /\ frames' = RemoveAt(frames, i)
    /\ UNCHANGED <<offTaskVars, abort, didCompleteReadingStream,
                   presentAssistantMessageHasPendingUpdates, consecutiveMistakeCount,
                   lastResult, presented, handlerLog, validationLog, delivered>>

\* Lines 195-204, 273-303: validation passes and the switch has no case for the
\* tool; whether the error text holds the word "Error" is formatResponse's.
ValidateOkNoHandler(i) ==
    /\ Resumes(i, {"getState"})
    /\ XmlRootName(frames[i].block) \notin HandlerNames
    /\ \E textHasErrorWord \in BOOLEAN :
           Respond(i, ToolResultResponse(frames[i].block, "not implemented",
                                         textHasErrorWord), FALSE)

\* Lines 168-177, 223-303: the handler returns, having pushed its result or
\* having reported a failure through handleError, which pushes the error text
\* of formatResponse; askApproval may have set didRejectTool on the way.
ToolReturn(i) ==
    /\ Resumes(i, {"tool"})
    /\ \E rejected \in BOOLEAN, onError \in BOOLEAN, textHasErrorWord \in BOOLEAN :
           Respond(i, ToolResultResponse(frames[i].block,
                                         IF onError THEN "tool error" ELSE "tool result",
                                         textHasErrorWord), rejected)

\* Lines 305-322: the handler throws, synchronously or from an await.
ToolThrow(i) ==
    /\ Resumes(i, {"tool"})
    /\ \E rejected \in BOOLEAN :
           Respond(i, ToolErrorResponse(frames[i].block), rejected)

\* Lines 305-322: an import, closeBrowser or getState throws.
SetupThrow(i) ==
    /\ Resumes(i, {"import", "closeBrowser", "getState"})
    /\ Respond(i, ToolErrorResponse(frames[i].block), FALSE)

\* Lines 354-355: the awaited presentAssistantMessage has returned; return.
ResumeLegacy(i) ==
    /\ Resumes(i, {"legacy"})
    /\ frames' = RemoveAt(frames, i)
    /\ UNCHANGED <<offTaskVars, abort, didCompleteReadingStream, taskVars, ctl, lastResult, histVars>>

-----------------------------------------------------------------------------
\* The stream and the user.

\* The frames that hold the original of the last block while its slot holds
\* the tag form.
HoldersOfLast ==
    {i \in 1..Len(frames) :
        frames[i].pc \in ExecPcs /\ frames[i].at = Len(assistantMessageContent) - 1}

LastLive ==
    IF HoldersOfLast # {}
    THEN frames[CHOOSE i \in HoldersOfLast : TRUE].originalBlock
    ELSE assistantMessageContent[Len(assistantMessageContent)]

\* The block of an invocation being the live block itself.
SnapshotIsLiveBlock == TRUE

\* Line 39: block is cloneDeep of the block at the cursor, an object of its
\* own that the live block's mutations do not reach.
SnapshotAliasesLive == FALSE

\* The live last block is mutated in place.
SetLastLive(b) ==
    /\ frames' =
           [i \in 1..Len(frames) |->
               LET f == frames[i]
                   g == IF HoldersOfLast # {} /\ i = (CHOOSE h \in HoldersOfLast : TRUE)
                        THEN [f EXCEPT !.originalBlock = b]
                        ELSE f
               IN IF SnapshotAliasesLive /\ f.at = Len(assistantMessageContent) - 1
                  THEN [g EXCEPT !.block = b]
                  ELSE g]
    /\ assistantMessageContent' =
           IF HoldersOfLast # {} THEN assistantMessageContent
           ELSE [assistantMessageContent EXCEPT ![Len(assistantMessageContent)] = b]

Streaming == ctl = "idle" /\ ~didCompleteReadingStream

NewBlocks(i) ==
    {TextContent(p, 1) : p \in BOOLEAN}
    \cup {AnthropicToolUse(i, n, p, 1) : n \in StreamNames, p \in BOOLEAN}
    \cup {StringInputToolUse(i, "read_file", FALSE, 1)}
    \cup {ToolUse("read_file", FALSE)}

streamUnchanged ==
    <<offTaskVars, abort, didCompleteReadingStream, presentAssistantMessageLocked,
      presentAssistantMessageHasPendingUpdates, currentStreamingContentIndex,
      userMessageContentReady, didRejectTool, didAlreadyUseTool,
      consecutiveMistakeCount, userMessageContent, ctl, lastResult, presented,
      ended, handlerLog, validationLog>>

\* A new block arrives after the previous one was terminated.
StreamAppend ==
    /\ Streaming
    /\ Len(assistantMessageContent) < MaxBlocks
    /\ assistantMessageContent # <<>> => ~LastLive.partial
    /\ \E b \in NewBlocks(Len(assistantMessageContent) + 1) :
           /\ assistantMessageContent' = Append(assistantMessageContent, b)
           /\ delivered' = Append(delivered, b.type)
    /\ UNCHANGED <<frames, streamUnchanged>>

\* More text or another argument fragment arrives for the partial block.
StreamGrow ==
    /\ Streaming
    /\ assistantMessageContent # <<>>
    /\ LastLive.partial
    /\ LastLive.content < MaxContent
    /\ SetLastLive([LastLive EXCEPT !.content = @ + 1])
    /\ UNCHANGED <<delivered, streamUnchanged>>

\* The terminating marker of the partial block arrives.
StreamFinish ==
    /\ Streaming
    /\ assistantMessageContent # <<>>
    /\ LastLive.partial
    /\ SetLastLive([LastLive EXCEPT !.partial = FALSE])
    /\ UNCHANGED <<delivered, streamUnchanged>>

StreamComplete ==
    /\ Streaming
    /\ didCompleteReadingStream' = TRUE
    /\ UNCHANGED <<offTaskVars, abort, taskVars, frames, ctl, lastResult, histVars>>

SetAbort ==
    /\ ctl = "idle"
    /\ ~abort
    /\ abort' = TRUE
    /\ UNCHANGED <<offTaskVars, didCompleteReadingStream, taskVars, frames, ctl, lastResult, histVars>>

-----------------------------------------------------------------------------
Enter ==
    \/ EnterAbort
    \/ EnterLocked
    \/ EnterDrained
    \/ EnterTextSuppressed
    \/ EnterText
    \/ EnterToolSuppressed
    \/ EnterToolUnconvertible
    \/ EnterTool
    \/ EnterTagToolUse

Resume ==
    \E i \in 1..MaxFrames :
        \/ ResumeSay(i)
        \/ ResumeImport(i)
        \/ ResumeCloseBrowser(i)
        \/ ValidateFail(i)
        \/ ValidateOkInvoke(i)
        \/ ValidateOkNoHandler(i)
        \/ ToolReturn(i)
        \/ ToolThrow(i)
        \/ SetupThrow(i)
        \/ ResumeLegacy(i)

Stream ==
    \/ StreamAppend
    \/ StreamGrow
    \/ StreamFinish
    \/ StreamComplete

Next == Enter \/ Resume \/ Stream \/ SetAbort

Spec == Init /\ [][Next]_vars

\* Every scheduled segment eventually runs: the event loop runs the recursive
\* call and resumes every settled await, and the stream's owner invokes the
\* dispatcher after each update and at the end of the stream.
FairSpec == Spec /\ WF_vars(Enter) /\ WF_vars(Resume)

-----------------------------------------------------------------------------
\* AnthropicToolUseAccumulator: its methods called in any order with any
\* arguments, one call per step.

\* The ids the methods are called with; NoId is the empty string.
AccIds == {NoId, 1, 2}

\* The name a call is started with: one that sanitizeToolName changes.
AccNames == {<<"r", " ", "7">>}

\* The initial arguments a call is started with.
AccInputs ==
    {EmptyObject, PathObject(<<>>), EmptyArray, JsString(<<"x">>), JsNull, Circular}

\* The fragments the deltas carry.
AccFragments == {<<"{", "K", "q", "x">>, <<"x", "q", "}">>, <<"{", "}">>}

\* this.pendingToolUses.has(id) / .get(id)
Registered(id) == \E k \in 1..Len(pendingToolUses) : pendingToolUses[k].id = id

SlotOf(id) == CHOOSE k \in 1..Len(pendingToolUses) : pendingToolUses[k].id = id

Pending(id) == pendingToolUses[SlotOf(id)]

\* this.pendingToolUses.set(id, entry): a new key goes last, a known key
\* keeps its place.
MapSet(id, entry) ==
    IF Registered(id)
    THEN [pendingToolUses EXCEPT ![SlotOf(id)] = entry]
    ELSE Append(pendingToolUses, entry)

\* Object.keys(input).length === 0
IsEmptyInput(input) == ~input.has

\* The text a call is seeded with, every start seeded with the serialization.
SeedTextAlwaysSerialized(input) == JsonStringify(input)
\* Lines 171, 176: the text a call is seeded with.
SeedText(input) == IF IsEmptyInput(input) THEN <<>> ELSE JsonStringify(input)

\* Lines 155-163: the checks of addToolUseStart.
StartAccepts(id, input) == validateToolUseId(IdKind(id)) /\ validateToolInput(input.kind)

\* A delta accepted by every registered call.
DeltaAcceptsCompleted(id) == Registered(id)
\* Lines 184-185: existing && !existing.completed
DeltaAccepts(id) == Registered(id) /\ ~Pending(id).completed

\* A failed parse marking the call completed all the same.
CompletedAfterParseAlways(text) == TRUE
\* Lines 196-199, 210: toolUse.completed is set after JSON.parse returned.
CompletedAfterParse(text) == ~JsonParseThrows(text)

\* Lines 165-178: the entry a start registers, under the sanitized name.
PendingToolUse(id, name, input) ==
    [id |-> id, name |-> sanitizeToolName(name), inputJson |-> SeedText(input),
     completed |-> FALSE]

accUnchanged == <<dispatcherVars, libVars, toolHandlerVars, configVars, settingsVars>>

\* Lines 154-181.
addToolUseStart ==
    \E id \in AccIds, name \in AccNames, input \in AccInputs :
        /\ IF StartAccepts(id, input)
           THEN /\ pendingToolUses' =
                       MapSet(id, PendingToolUse(id, name, input))
                /\ accFed' = [x \in DOMAIN accFed \cup {id} |->
                                 IF x = id
                                 THEN [init |-> input.kind,
                                       text |-> IF input = EmptyObject THEN <<>>
                                                ELSE JsonStringify(input),
                                       failed |-> FALSE]
                                 ELSE accFed[x]]
           ELSE UNCHANGED <<pendingToolUses, accFed>>
        /\ accLast' = [op |-> "start", id |-> id, arg |-> input.kind, frag |-> <<>>,
                       drained |-> <<>>, ret |-> Undefined]
        /\ UNCHANGED accUnchanged

\* Lines 183-190.  A fragment is offered only while the texts stay within the
\* bound of the model; accFed follows the fragments up to the first
\* completeToolUse that returns the call.
addToolUseDelta ==
    \E id \in AccIds, partialJson \in AccFragments :
        /\ Registered(id) =>
               /\ Len(Pending(id).inputJson) + Len(partialJson) <= MaxJsonLen
               /\ Len(accFed[id].text) + Len(partialJson) <= MaxJsonLen
        /\ IF DeltaAccepts(id)
           THEN pendingToolUses' =
                    [pendingToolUses EXCEPT ![SlotOf(id)].inputJson = @ \o partialJson]
           ELSE UNCHANGED pendingToolUses
        /\ accFed' = IF Registered(id) /\ ~Pending(id).completed
                     THEN [accFed EXCEPT ![id].text = @ \o partialJson]
                     ELSE accFed
        /\ accLast' = [op |-> "delta", id |-> id, arg |-> "none", frag |-> partialJson,
                       drained |-> <<>>, ret |-> Undefined]
        /\ UNCHANGED accUnchanged

\* Lines 192-214.
completeToolUse ==
    \E id \in AccIds :
        /\ IF Registered(id)
           THEN /\ pendingToolUses' =
                       [pendingToolUses EXCEPT ![SlotOf(id)].completed =
                            @ \/ CompletedAfterParse(Pending(id).inputJson)]
                /\ accLast' =
                       [op |-> "complete", id |-> id, arg |-> "none", frag |-> <<>>,
                        drained |-> <<>>, ret |-> IF JsonParseThrows(Pending(id).inputJson)
                                THEN Null
                                ELSE AnthropicToolUseChunk(Pending(id).id, Pending(id).name,
                                         JsonParse(Pending(id).inputJson))]
                /\ accFed' = [accFed EXCEPT ![id].failed =
                                  @ \/ JsonParseThrows(Pending(id).inputJson)]
           ELSE /\ UNCHANGED <<pendingToolUses, accFed>>
                /\ accLast' = [op |-> "complete", id |-> id, arg |-> "none",
                               frag |-> <<>>, drained |-> <<>>, ret |-> Null]
        /\ UNCHANGED accUnchanged

\* Lines 217-233: the chunks of the completed calls, in the map's order; a
\* completed call whose text would not parse is left out.
CompletedChunks ==
    LET done == SelectSeq(pendingToolUses,
                          LAMBDA e : e.completed /\ ~JsonParseThrows(e.inputJson))
    IN  [k \in 1..Len(done) |->
            AnthropicToolUseChunk(done[k].id, done[k].name, JsonParse(done[k].inputJson))]

\* Lines 216-236: the map after getCompletedToolUses; nothing is deleted.
AfterGetCompleted == pendingToolUses

\* Lines 216-236.
getCompletedToolUses ==
    /\ pendingToolUses' = AfterGetCompleted
    /\ accLast' = [op |-> "drain", id |-> NoId, arg |-> "none", frag |-> <<>>,
                   drained |-> CompletedChunks, ret |-> Undefined]
    /\ UNCHANGED <<accFed, accUnchanged>>

\* Lines 238-240.
clear ==
    /\ pendingToolUses' = <<>>
    /\ accFed' = [id \in {} |-> <<>>]
    /\ accLast' = [op |-> "clear", id |-> NoId, arg |-> "none", frag |-> <<>>,
                   drained |-> <<>>, ret |-> Undefined]
    /\ UNCHANGED accUnchanged

AccNext ==
    \/ addToolUseStart
    \/ addToolUseDelta
    \/ completeToolUse
    \/ getCompletedToolUses
    \/ clear

AccSpec == Init /\ [][AccNext]_vars

-----------------------------------------------------------------------------
\* AnthropicToolHandler: the streaming calls of the older integration.

\* The call ids of the tool handler's events.
HandlerIds == {1, 2}

\* this.streamingToolUses.has(id) / .get(id)
Streaming_has(id) == \E k \in 1..Len(streamingToolUses) : streamingToolUses[k].id = id

Streaming_slot(id) == CHOOSE k \in 1..Len(streamingToolUses) : streamingToolUses[k].id = id

Streaming_get(id) == streamingToolUses[Streaming_slot(id)]

\* Line 42: !this.currentStreamingToolId (null, or the empty string).
NoCurrentStreamingTool == currentStreamingToolId \in {NoCurrentTool, NoId}

\* Lines 42-51: the delta goes to the current call when it is in the map.
DeltaReaches == ~NoCurrentStreamingTool /\ Streaming_has(currentStreamingToolId)

\* A failed parse resetting the input.
ParsedInputOrEmpty(text, input) ==
    IF JsonParseThrows(text) THEN EmptyObject ELSE JsonParse(text)

\* Lines 57-62: input becomes JSON.parse of the text unless it throws.
ParsedInput(text, input) ==
    IF JsonParseThrows(text) THEN input ELSE JsonParse(text)

handlerUnchanged == <<dispatcherVars, accVars, libVars, configVars, settingsVars>>

\* Lines 27-36.  null stands for every falsy input.
handleToolUseStart ==
    \E id \in HandlerIds, input \in {EmptyObject, PathObject(<<>>), JsNull} :
        /\ currentStreamingToolId' = id
        /\ streamingToolUses' =
               LET entry == [id |-> id, name |-> "read_file",
                             input |-> IF input = JsNull THEN EmptyObject ELSE input,
                             isComplete |-> FALSE, accumulatedJson |-> <<>>]
               IN IF Streaming_has(id)
                  THEN [streamingToolUses EXCEPT ![Streaming_slot(id)] = entry]
                  ELSE Append(streamingToolUses, entry)
        /\ handlerLast' = [op |-> "start", id |-> id, frag |-> <<>>, drained |-> <<>>]
        /\ UNCHANGED <<toolNameToIdMap, outstanding, handlerUnchanged>>

\* Lines 41-63.  The fragments are the two halves of {"path":"xx"}; one is
\* offered only while the text stays within the bound of the model.
handleToolUseDelta ==
    \E partialJson \in {<<"{", "K", "q", "x">>, <<"x", "q", "}">>} :
        /\ DeltaReaches =>
               Len(Streaming_get(currentStreamingToolId).accumulatedJson) + Len(partialJson)
                   <= MaxJsonLen
        /\ streamingToolUses' =
               IF DeltaReaches
               THEN LET k == Streaming_slot(currentStreamingToolId)
                        text == streamingToolUses[k].accumulatedJson \o partialJson
                    IN [streamingToolUses EXCEPT
                           ![k].accumulatedJson = text,
                           ![k].input = ParsedInput(text, @)]
               ELSE streamingToolUses
        /\ handlerLast' = [op |-> "delta", id |-> NoId, frag |-> partialJson, drained |-> <<>>]
        /\ UNCHANGED <<currentStreamingToolId, toolNameToIdMap, outstanding, handlerUnchanged>>

\* Lines 141-146.
markToolUseComplete ==
    \E id \in HandlerIds :
        /\ streamingToolUses' =
               IF Streaming_has(id)
               THEN [streamingToolUses EXCEPT ![Streaming_slot(id)].isComplete = TRUE]
               ELSE streamingToolUses
        /\ handlerLast' = [op |-> "complete", id |-> id, frag |-> <<>>, drained |-> <<>>]
        /\ UNCHANGED <<currentStreamingToolId, toolNameToIdMap, outstanding, handlerUnchanged>>

\* Lines 151-156.
markAllToolUsesComplete ==
    /\ streamingToolUses' =
           [k \in 1..Len(streamingToolUses) |->
               [streamingToolUses[k] EXCEPT !.isComplete = TRUE]]
    /\ currentStreamingToolId' = NoCurrentTool
    /\ handlerLast' = [op |-> "completeAll", id |-> NoId, frag |-> <<>>, drained |-> <<>>]
    /\ UNCHANGED <<toolNameToIdMap, outstanding, handlerUnchanged>>

\* The most conversions whose id no lookup has returned yet.
MaxOutstanding == 3

\* The tool names of the converted calls.
ConvertedNames == {"read_file", "list_files"}

\* Line 73: this.toolNameToIdMap.set(name, id)
NameMapSet(name, id) ==
    [n \in DOMAIN toolNameToIdMap \cup {name} |->
        IF n = name THEN id ELSE toolNameToIdMap[n]]

\* Line 162: this.toolNameToIdMap.get(toolName) || null
NameMapGet(toolName) ==
    IF toolName \in DOMAIN toolNameToIdMap THEN toolNameToIdMap[toolName] ELSE NoId

\* Lines 69-87: the id is stored under the tool's name; the text returned is
\* the comment with the id and the tag of the tool, no state.
convertToolUseToXml(name, id) ==
    /\ Len(outstanding) < MaxOutstanding
    /\ toolNameToIdMap' = NameMapSet(name, id)
    /\ outstanding' = Append(outstanding, [name |-> name, id |-> id])
    /\ handlerLast' = [op |-> "convert", id |-> id, frag |-> <<>>, drained |-> <<>>]
    /\ UNCHANGED <<streamingToolUses, currentStreamingToolId, handlerUnchanged>>

\* The conversions of the name whose id is still to be handed out.
OutstandingFor(toolName) ==
    {k \in 1..Len(outstanding) : outstanding[k].name = toolName}

\* The history without the conversions a lookup has just answered.
Answered(toolName, id) ==
    SelectSeq(outstanding, LAMBDA e : ~(e.name = toolName /\ e.id = id))

\* Lines 161-168: the id stored under the name is returned and deleted; NoId
\* stands for null.
getToolUseIdByName(toolName) ==
    /\ toolNameToIdMap' =
           [n \in DOMAIN toolNameToIdMap \ {toolName} |-> toolNameToIdMap[n]]
    /\ outstanding' = Answered(toolName, NameMapGet(toolName))
    /\ handlerLast' = [op |-> "lookup", id |-> NameMapGet(toolName), frag |-> <<>>,
                       drained |-> <<>>]
    /\ UNCHANGED <<streamingToolUses, currentStreamingToolId, handlerUnchanged>>

\* Lines 128-136: the completed calls are returned and deleted.
handlerGetCompletedToolUses ==
    /\ streamingToolUses' = SelectSeq(streamingToolUses, LAMBDA e : ~e.isComplete)
    /\ handlerLast' = [op |-> "drain", id |-> NoId, frag |-> <<>>,
                       drained |-> SelectSeq(streamingToolUses, LAMBDA e : e.isComplete)]
    /\ UNCHANGED <<currentStreamingToolId, toolNameToIdMap, outstanding, handlerUnchanged>>

\* Lines 173-177.
handlerClear ==
    /\ streamingToolUses' = <<>>
    /\ currentStreamingToolId' = NoCurrentTool
    /\ toolNameToIdMap' = [name \in {} |-> NoId]
    /\ outstanding' = <<>>
    /\ handlerLast' = [op |-> "clear", id |-> NoId, frag |-> <<>>, drained |-> <<>>]
    /\ UNCHANGED handlerUnchanged

HandlerNext ==
    \/ handleToolUseStart
    \/ handleToolUseDelta
    \/ markToolUseComplete
    \/ markAllToolUsesComplete
    \/ handlerGetCompletedToolUses
    \/ handlerClear

HandlerSpec == Init /\ [][HandlerNext]_vars

\* The conversions and the lookups read and write toolNameToIdMap only, which
\* no other method but clear touches: they are explored on their own.
NameMapNext ==
    \/ \E name \in ConvertedNames, id \in HandlerIds : convertToolUseToXml(name, id)
    \/ \E toolName \in ConvertedNames : getToolUseIdByName(toolName)
    \/ handlerClear

NameMapSpec == Init /\ [][NameMapNext]_vars

-----------------------------------------------------------------------------
\* CodeIndexConfigManager: the settings change, and are loaded.

\* The most changes of the persisted settings.
MaxStoreChanges == 1

configUnchanged == <<dispatcherVars, accVars, libVars, toolHandlerVars, settingsVars>>

\* The user saves a setting or a secret.
StoreChange ==
    /\ storeChanges < MaxStoreChanges
    /\ storeChanges' = storeChanges + 1
    /\ \E store \in Stores :
          /\ \E f \in DOMAIN store :
                /\ store[f] # configStore[f]
                /\ \A g \in DOMAIN store \ {f} : store[g] = configStore[g]
          /\ configStore' = store
    /\ UNCHANGED <<config, loading, configLast, configUnchanged>>

\* Lines 297-330, 138-160: the snapshot is taken and the settings are read;
\* the call then awaits the secrets.  Loads follow one another.
loadConfigurationBegin ==
    /\ ~loading.active
    /\ loading' = [active |-> TRUE, snapshot |-> PreviousConfigSnapshot(config),
                   first |-> configStore]
    /\ UNCHANGED <<configStore, config, configLast, storeChanges, configUnchanged>>

\* Lines 161-210, 332-350: the secrets have arrived; the fields are set and
\* the restart decision is returned.
loadConfigurationEnd ==
    /\ loading.active
    /\ config' = LoadedConfig(loading.first, configStore)
    /\ configLast' = [op |-> "load",
                      requiresRestart |-> doesConfigChangeRequireRestart(loading.snapshot, config'),
                      from |-> [ok |-> loading.first = configStore, store |-> configStore]]
    /\ loading' = NotLoading
    /\ UNCHANGED <<configStore, storeChanges, configUnchanged>>

ConfigNext ==
    \/ StoreChange
    \/ loadConfigurationBegin
    \/ loadConfigurationEnd

ConfigInit ==
    /\ InitComponents
    /\ call = [fn |-> "none", done |-> FALSE]
    /\ \E store \in Stores : Constructed(store)

ConfigSpec == ConfigInit /\ [][ConfigNext]_vars

-----------------------------------------------------------------------------
\* CodeIndexSettings: the settings form of the webview.  A step is one event
\* handler (an input, a click, a message, a timer) with the render after it.
\* Of the fields, one plain setting and one secret are kept; the indexing
\* status and the secret status, which no save depends on, are left out.

\* The most save messages waiting for their response.
MaxInFlight == 2

\* The most pending timers.
MaxTimers == 2

settingsUnchanged == <<dispatcherVars, accVars, libVars, toolHandlerVars, configVars>>

\* The secret fields.
SecretFields == {"codeIndexOpenAiKey"}

\* The values typed into a field.
FieldValues(field) ==
    IF field \in SecretFields THEN {"", "k"}
    ELSE {"http://localhost:6333", "http://localhost:6334"}

\* The edits of the fields: a field and the value typed into it.
FieldEdits ==
    UNION {{<<field, value>> : value \in FieldValues(field)} :
              field \in {"codebaseIndexQdrantUrl", "codeIndexOpenAiKey"}}

\* Line 268: disabled={saveStatus === "saving" || !hasUnsavedChanges}
SaveDisabled == saveStatus = "saving" \/ ~hasUnsavedChanges

\* Lines 157-162.
updateSetting(field, value) ==
    /\ localSettings' = [localSettings EXCEPT ![field] = value]
    /\ modifiedFields' = modifiedFields \cup {field}
    /\ hasUnsavedChanges' = TRUE
    /\ saveStatus' = "idle"
    /\ settingsLast' = [settingsLast EXCEPT !.op = "edit"]
    /\ UNCHANGED <<saveTimers, saveRequests, settingsUnchanged>>

\* Lines 169-189: the plain settings always, a secret only if it was modified.
SettingsToSave ==
    [codebaseIndexQdrantUrl |-> localSettings.codebaseIndexQdrantUrl,
     codeIndexOpenAiKey |-> IF "codeIndexOpenAiKey" \in modifiedFields
                            THEN localSettings.codeIndexOpenAiKey ELSE NoText]

\* Lines 164-198: a click on the enabled Save button.
saveSettings ==
    /\ ~SaveDisabled
    /\ Len(saveRequests) < MaxInFlight
    /\ saveStatus' = "saving"
    /\ hasUnsavedChanges' = FALSE
    /\ saveRequests' = Append(saveRequests, SettingsToSave)
    /\ modifiedFields' = {}
    /\ settingsLast' = [settingsLast EXCEPT !.op = "save"]
    /\ UNCHANGED <<localSettings, saveTimers, settingsUnchanged>>

\* Lines 117-135: the extension answers the oldest save message.
handleMessage(success) ==
    /\ saveRequests # <<>>
    /\ saveTimers < MaxTimers
    /\ saveRequests' = Tail(saveRequests)
    /\ saveStatus' = IF success THEN "success" ELSE "error"
    /\ hasUnsavedChanges' = IF success THEN FALSE ELSE hasUnsavedChanges
    /\ saveTimers' = saveTimers + 1
    /\ settingsLast' = [op |-> "saved", success |-> success, answered |-> Head(saveRequests)]
    /\ UNCHANGED <<localSettings, modifiedFields, settingsUnchanged>>

\* Lines 124-126, 132-134: a timer set by a response fires.
SaveStatusTimeout ==
    /\ saveTimers > 0
    /\ saveTimers' = saveTimers - 1
    /\ saveStatus' = "idle"
    /\ settingsLast' = [settingsLast EXCEPT !.op = "timer"]
    /\ UNCHANGED <<localSettings, modifiedFields, hasUnsavedChanges, saveRequests,
                   settingsUnchanged>>

\* Lines 97-108: the extension's state arrives as new props, and the plain
\* settings are taken from it.
CodebaseIndexConfigChange ==
    \E url \in FieldValues("codebaseIndexQdrantUrl") :
        /\ localSettings' = [localSettings EXCEPT !.codebaseIndexQdrantUrl = url]
        /\ settingsLast' = [settingsLast EXCEPT !.op = "props"]
        /\ UNCHANGED <<modifiedFields, saveStatus, hasUnsavedChanges, saveTimers,
                       saveRequests, settingsUnchanged>>

SettingsNext ==
    \/ \E edit \in FieldEdits : updateSetting(edit[1], edit[2])
    \/ saveSettings
    \/ \E success \in BOOLEAN : handleMessage(success)
    \/ SaveStatusTimeout
    \/ CodebaseIndexConfigChange

SettingsSpec == Init /\ [][SettingsNext]_vars

-----------------------------------------------------------------------------
\* The stateless functions of validation.ts and of the bridge, each applied to
\* arguments drawn from bounded sets; call records the application.

libUnchanged == <<dispatcherVars, accVars, toolHandlerVars, configVars, settingsVars>>

\* The kinds of id the validators are offered.
IdKinds == {"nonempty", "empty", "number", "undefined"}

\* The values validateAnthropicToolUse is offered.
Candidates ==
    {Candidate(w, t, i, n, in, p) :
        w \in {"object", "null", "string"},
        t \in {"anthropic_tool_use", "text"},
        i \in IdKinds,
        n \in {"string", "undefined"},
        in \in {"object", "array", "null", "circular", "string", "undefined"},
        p \in {"boolean", "undefined"}}

\* The longest tool name offered.
MaxNameLen == 3

\* The characters of the tool names offered: those of NameChars, and a
\* blank, an angle bracket and a dot.
OfferedChars == NameChars \cup {" ", "<", "."}

OfferedNames == UNION {[1..n -> OfferedChars] : n \in 0..MaxNameLen}

\* A function and the argument it is about to be applied to.
Application(fn, arg) == [fn |-> fn, arg |-> arg, done |-> FALSE]

Applying(fn) == call.fn = fn /\ ~call.done

\* The function has returned ret.
Returned(ret) == [fn |-> call.fn, arg |-> call.arg, done |-> TRUE, ret |-> ret]

Applied(fn) == call.fn = fn /\ call.done

\* The result texts offered to convertXmlResultToAnthropicToolResponse.
OfferedResults == {"", NoText, "file contents", "Error: no such file"}

\* The most entries an offered input has.
MaxKeys == 2

\* The inputs offered: up to MaxKeys entries with distinct keys among args,
\* path and limit; under args an array of one or two objects, a string or
\* null; under the other keys a string, null, undefined, a number or an array
\* of two strings.
OfferedToolInputs ==
    LET underArgs == {ArgValue("files", "", <<"a.ts">>),
                      ArgValue("files", "", <<"a.ts", "b.ts">>),
                      ArgValue("string", "a.ts", <<>>), ArgValue("null", "", <<>>)}
        underOthers == {ArgValue("string", "a.ts", <<>>), ArgValue("null", "", <<>>),
                        ArgValue("undefined", "", <<>>), ArgValue("number", "7", <<>>),
                        ArgValue("array", "", <<"a.ts", "b.ts">>)}
        entries == {Entry("args", v) : v \in underArgs}
                   \cup {Entry(k, v) : k \in {"path", "limit"}, v \in underOthers}
    IN UNION {{input \in [1..n -> entries] :
                  \A i, j \in 1..n : i # j => input[i].key # input[j].key} :
              n \in 0..MaxKeys}

LibInit ==
    /\ InitComponents
    /\ Constructed(DefaultStore)
    /\ \/ \E toolUse \in Candidates : call = Application("validateAnthropicToolUse", toolUse)
       \/ \E id \in IdKinds : call = Application("validateToolUseId", id)
       \/ \E name \in OfferedNames : call = Application("sanitizeToolName", name)
       \/ \E name \in OfferedNames : call = Application("addToolUseStart", name)
       \/ \E input \in OfferedToolInputs :
             call = Application("convertAnthropicToolUseToXml", input)
       \/ \E id \in AccIds, result \in OfferedResults, isError \in BOOLEAN :
             call = Application("convertXmlResultToAnthropicToolResponse",
                                [toolUseId |-> id, result |-> result, isError |-> isError])

ValidateAnthropicToolUseCall ==
    /\ Applying("validateAnthropicToolUse")
    /\ call' = Returned(validateAnthropicToolUse(call.arg))
    /\ UNCHANGED libUnchanged

ValidateToolUseIdCall ==
    /\ Applying("validateToolUseId")
    /\ call' = Returned(validateToolUseId(call.arg))
    /\ UNCHANGED libUnchanged

SanitizeToolNameCall ==
    /\ Applying("sanitizeToolName")
    /\ call' = Returned(sanitizeToolName(call.arg))
    /\ UNCHANGED libUnchanged

\* addToolUseStart("t1", name, {}) on a new accumulator: the entry it
\* registers, or null when the start is rejected.
AddToolUseStartCall ==
    /\ Applying("addToolUseStart")
    /\ call' = Returned(IF StartAccepts(1, EmptyObject)
                        THEN PendingToolUse(1, call.arg, EmptyObject)
                        ELSE Null)
    /\ UNCHANGED libUnchanged

ConvertXmlResultCall ==
    /\ Applying("convertXmlResultToAnthropicToolResponse")
    /\ call' = Returned(ToolResponse(call.arg.toolUseId, call.arg.result, call.arg.isError))
    /\ UNCHANGED libUnchanged

ConvertToolUseToXmlCall ==
    /\ Applying("convertAnthropicToolUseToXml")
    /\ call' = Returned(convertAnthropicToolUseToXml("read_file", call.arg))
    /\ UNCHANGED libUnchanged

LibNext ==
    \/ ValidateAnthropicToolUseCall
    \/ ValidateToolUseIdCall
    \/ SanitizeToolNameCall
    \/ AddToolUseStartCall
    \/ ConvertXmlResultCall
    \/ ConvertToolUseToXmlCall

LibSpec == LibInit /\ [][LibNext]_vars

-----------------------------------------------------------------------------
\* Properties.

NoPassInProgress == frames = <<>>

\* The stream delivered text and structured tool calls only.
StructuredTurn == \A k \in 1..Len(delivered) : delivered[k] # "tool_use"

StartsPresentation == EnterText \/ EnterTool \/ EnterToolUnconvertible

EntriesFor(transcript, id) ==
    {k \in 1..Len(transcript) : transcript[k].tool_use_id = id}

IsToolBlock(b) == b.type = "anthropic_tool_use"

\* C1: at most one tool handler is invoked in a turn; the block it belongs to
\* is the first tool-invocation block dispatched (every block presented before
\* it is text); and an invocation that reads a tool-invocation block after a
\* handler was invoked starts no presentation, invokes no handler, appends
\* nothing to the transcript and advances the cursor past the block.
C1_AtMostOneToolPerTurn ==
    [][ /\ Len(handlerLog') <= 1
        /\ handlerLog' # <<>> =>
               \A j \in presented' :
                   j < handlerLog'[1] - 1 => assistantMessageContent'[j + 1].type = "text"
        /\ (handlerLog # <<>> /\ Enter /\ ReadsBlock("anthropic_tool_use")) =>
               /\ handlerLog' = handlerLog
               /\ userMessageContent' = userMessageContent
               /\ frames' = frames
               /\ currentStreamingContentIndex' = currentStreamingContentIndex + 1
      ]_vars

\* Two tool-invocation blocks were delivered, the first ran, and the cursor is
\* past the second with one response in the transcript.
C1_Witness ==
    /\ Len(assistantMessageContent) = 2
    /\ IsToolBlock(assistantMessageContent[1])
    /\ IsToolBlock(assistantMessageContent[2])
    /\ handlerLog = <<1>>
    /\ currentStreamingContentIndex = 2
    /\ Len(userMessageContent) = 1
    /\ NoPassInProgress

\* C2: every invocation that acquired the lock and ends (its suspended frame is
\* gone) leaves presentAssistantMessageLocked = false.  Stated for the turns of
\* text and structured tool calls, where the whole pass is the dispatcher's own.
C2_LockReleasedOnEveryExit ==
    [][ (StructuredTurn /\ Len(frames') < Len(frames)) =>
            ~presentAssistantMessageLocked' ]_vars

\* C3: at most one pass is in progress; it holds the lock and works on the
\* block at the cursor, and no presentation starts while it is in progress.
C3_SinglePass ==
    [][ /\ Len(frames') <= 1
        /\ frames' # <<>> =>
               /\ presentAssistantMessageLocked'
               /\ frames'[1].at = currentStreamingContentIndex'
        /\ ctl' = "call" => frames' = <<>>
        /\ (frames # <<>> /\ Enter) =>
               UNCHANGED <<currentStreamingContentIndex, assistantMessageContent,
                           userMessageContent, frames, histVars>>
      ]_vars

\* A tool handler is running and an invocation that arrived meanwhile was deferred.
C3_Witness ==
    /\ Len(frames) = 1
    /\ frames[1].pc = "tool"
    /\ lastResult = "deferred"
    /\ presentAssistantMessageHasPendingUpdates

\* C4: an invocation that finds the lock held changes only
\* presentAssistantMessageHasPendingUpdates, and a pass that ends with an
\* update pending is followed at once by one follow-up invocation (stated for
\* the turns of text and structured tool calls).
C4_DeferredThenOneFollowUp ==
    [][ /\ (LockHeld /\ ~AbortCheck /\ Enter) =>
               /\ presentAssistantMessageHasPendingUpdates'
               /\ UNCHANGED <<presentAssistantMessageLocked,
                              currentStreamingContentIndex, assistantMessageContent,
                              userMessageContentReady, didRejectTool, didAlreadyUseTool,
                              consecutiveMistakeCount, userMessageContent, frames,
                              histVars>>
        /\ (StructuredTurn /\ Len(frames') < Len(frames)
                /\ presentAssistantMessageHasPendingUpdates) =>
               ctl' = "call"
      ]_vars

\* C5: the cursor moves only by +1, and a presentation starts only for the
\* block at the cursor, with no pass in progress and after the pass of every
\* earlier block has ended.
C5_InOrder ==
    [][ /\ currentStreamingContentIndex' \in
               {currentStreamingContentIndex, currentStreamingContentIndex + 1}
        /\ presented' \subseteq 0..currentStreamingContentIndex'
        /\ StartsPresentation =>
               /\ NoPassInProgress
               /\ currentStreamingContentIndex \in presented'
               /\ \A i \in 0..(currentStreamingContentIndex - 1) : i \in ended
      ]_vars

\* The second block is being presented after the pass of the first has ended.
C5_Witness ==
    /\ presented = {0, 1}
    /\ ended = {0}
    /\ Len(frames) = 1
    /\ frames[1].at = 1

\* C6: the step in which validateToolUse rejects a block invokes no handler,
\* adds one to consecutiveMistakeCount, appends exactly one is_error response
\* keyed by the block's call id and sets didAlreadyUseTool; no handler is ever
\* invoked for a rejected block and it never gets a second response.
C6_ValidationFailure ==
    [][ /\ validationLog' # validationLog =>
               /\ handlerLog' = handlerLog
               /\ consecutiveMistakeCount' = consecutiveMistakeCount + 1
               /\ userMessageContent' =
                      Append(userMessageContent,
                             [type |-> "tool_result",
                              tool_use_id |-> currentStreamingContentIndex + 1,
                              content |-> "validation error",
                              is_error |-> TRUE])
               /\ didAlreadyUseTool'
        /\ \A k \in 1..Len(validationLog') :
               /\ \A h \in 1..Len(handlerLog') : handlerLog'[h] # validationLog'[k]
               /\ Cardinality(EntriesFor(userMessageContent', validationLog'[k])) = 1
      ]_vars

\* A block was rejected by validation.
C6_Witness ==
    /\ validationLog = <<1>>
    /\ consecutiveMistakeCount = 1
    /\ didAlreadyUseTool
    /\ handlerLog = <<>>

\* C7: after a validation failure the turn goes on: once the rejecting
\* invocation has ended the lock is free and the cursor is past the rejected
\* block.
C7_TurnContinuesAfterValidationFailure ==
    \A k \in 1..Len(validationLog) :
        NoPassInProgress =>
            /\ ~presentAssistantMessageLocked
            /\ currentStreamingContentIndex >= validationLog[k]

\* C8: the step in which a tool handler throws appends exactly one is_error
\* response keyed by the block's call id, sets didAlreadyUseTool, leaves
\* consecutiveMistakeCount alone, releases the lock, advances the cursor and
\* ends the pass.
C8_ToolThrowCaught ==
    [][ (\E i \in 1..MaxFrames : ToolThrow(i)) =>
            /\ Len(userMessageContent') = Len(userMessageContent) + 1
            /\ userMessageContent'[Len(userMessageContent')].tool_use_id =
                   currentStreamingContentIndex + 1
            /\ userMessageContent'[Len(userMessageContent')].is_error
            /\ SubSeq(userMessageContent', 1, Len(userMessageContent)) = userMessageContent
            /\ didAlreadyUseTool'
            /\ consecutiveMistakeCount' = consecutiveMistakeCount
            /\ ~presentAssistantMessageLocked'
            /\ currentStreamingContentIndex' = currentStreamingContentIndex + 1
            /\ frames' = <<>>
            /\ assistantMessageContent'[currentStreamingContentIndex + 1].type =
                   "anthropic_tool_use"
      ]_vars

\* A handler was invoked and threw; the pass has ended.
C8_Witness ==
    /\ handlerLog = <<1>>
    /\ Len(userMessageContent) = 1
    /\ userMessageContent[1].content = "Tool execution failed"
    /\ userMessageContent[1].is_error
    /\ ~presentAssistantMessageLocked
    /\ currentStreamingContentIndex = 1
    /\ consecutiveMistakeCount = 0

AllBlocksComplete ==
    /\ \A k \in 1..Len(assistantMessageContent) : ~assistantMessageContent[k].partial
    /\ \A i \in 1..Len(frames) : ~frames[i].originalBlock.partial

TurnDrained ==
    /\ currentStreamingContentIndex = Len(assistantMessageContent)
    /\ userMessageContentReady

\* C9: in a turn of text and structured tool calls that is not aborted, once
\* the stream has completed with every block non-partial, the cursor
\* eventually reaches the end of the sequence with userMessageContentReady = true.
C9_EventuallyReady ==
    [](~abort) =>
        ((didCompleteReadingStream /\ AllBlocksComplete /\ StructuredTurn) ~> TurnDrained)

\* C10: an invocation made with abort set changes nothing of the task (it only
\* throws), and once abort is set no presentation starts.
C10_AbortFailsFast ==
    [][ /\ (abort /\ Enter) =>
               /\ lastResult' = "aborted"
               /\ UNCHANGED <<taskVars, frames, histVars, didCompleteReadingStream>>
        /\ abort => ~(StartsPresentation \/ EnterTagToolUse)
      ]_vars

\* An invocation threw on abort while blocks were still waiting at a free cursor.
C10_Witness ==
    /\ abort
    /\ lastResult = "aborted"
    /\ ~presentAssistantMessageLocked
    /\ currentStreamingContentIndex < Len(assistantMessageContent)

-----------------------------------------------------------------------------
\* C11: an invocation made with the lock free and the cursor at or past the
\* end of the blocks sets userMessageContentReady to true exactly when
\* didCompleteReadingStream is true and otherwise leaves it as it was, leaves
\* the cursor, the blocks and the transcript unchanged, suspends nothing, and
\* returns with the lock released.
C11_DrainedInvocation ==
    [][(Enter /\ ~abort /\ ~presentAssistantMessageLocked
          /\ currentStreamingContentIndex >= Len(assistantMessageContent))
       => /\ userMessageContentReady' =
                 (IF didCompleteReadingStream THEN TRUE ELSE userMessageContentReady)
          /\ currentStreamingContentIndex' = currentStreamingContentIndex
          /\ assistantMessageContent' = assistantMessageContent
          /\ userMessageContent' = userMessageContent
          /\ frames' = frames
          /\ ~presentAssistantMessageLocked'
          /\ ctl' = "idle"]_vars

\* Both cases happen: the stream has ended and the reply became ready with
\* every block passed, and (elsewhere) the stream is still open.
C11_Witness ==
    /\ lastResult = "drained"
    /\ didCompleteReadingStream
    /\ userMessageContentReady
    /\ assistantMessageContent # <<>>
    /\ currentStreamingContentIndex = Len(assistantMessageContent)
    /\ ~presentAssistantMessageLocked

\* C12: an invocation that reads a text block while didRejectTool or
\* didAlreadyUseTool is set makes no say call for it (nothing is suspended and
\* the block's presentation never starts) and still moves the cursor past it,
\* whether or not the block is partial, releasing the lock.
C12_SuppressedTextAdvances ==
    [][(/\ Enter /\ ~abort /\ ~presentAssistantMessageLocked
        /\ currentStreamingContentIndex < Len(assistantMessageContent)
        /\ BlockAt(currentStreamingContentIndex).type = "text"
        /\ (didRejectTool \/ didAlreadyUseTool))
       => /\ frames' = frames
          /\ presented' = presented
          /\ currentStreamingContentIndex' = currentStreamingContentIndex + 1
          /\ ~presentAssistantMessageLocked']_vars

\* A partial text block after a dispatched tool call was passed without
\* having been presented.
C12_Witness ==
    /\ lastResult = "skipped"
    /\ currentStreamingContentIndex = 2
    /\ assistantMessageContent[2].type = "text"
    /\ assistantMessageContent[2].partial
    /\ 1 \notin presented
    /\ 1 \in ended
    /\ didAlreadyUseTool

\* The invocation dispatching the block at index j is suspended at an await.
InProgressAt(j) == \E i \in 1..Len(frames) : frames[i].pc \in ExecPcs /\ frames[i].at = j

\* C13: a tool-invocation block whose dispatch has finished has exactly one
\* tool-response entry in the transcript, under its own call id; one whose
\* dispatch is still running has none yet; one that was skipped or not reached
\* has none; and every entry of the transcript belongs to a dispatched
\* tool-invocation block.
C13_OneEntryPerDispatchedBlock ==
    /\ \A j \in 1..Len(delivered) :
           delivered[j] = "anthropic_tool_use" =>
               Cardinality(EntriesFor(userMessageContent, j)) =
                   (IF (j - 1) \in presented /\ ~InProgressAt(j - 1) THEN 1 ELSE 0)
    /\ \A k \in 1..Len(userMessageContent) :
           /\ userMessageContent[k].tool_use_id \in 1..Len(delivered)
           /\ delivered[userMessageContent[k].tool_use_id] = "anthropic_tool_use"
           /\ (userMessageContent[k].tool_use_id - 1) \in presented

\* The first tool call was dispatched and answered by its handler, the second
\* was skipped: one entry, under the first call's id.
C13_Witness ==
    /\ delivered = <<"anthropic_tool_use", "anthropic_tool_use">>
    /\ currentStreamingContentIndex = 2
    /\ presented = {0}
    /\ ended = {0, 1}
    /\ Len(userMessageContent) = 1
    /\ userMessageContent[1].tool_use_id = 1
    /\ userMessageContent[1].content = "tool result"

\* The shape checks of the validation layer, all passing for a block.
ShapeChecksPass(b) ==
    validateAnthropicToolUse(AsCandidate(b)) /\ validateToolUseId(IdKind(b.id))
    /\ validateToolInput(b.input)

\* validateToolUse runs in this step for the invocation suspended as frame i.
GateRuns(i) == ValidateFail(i) \/ ValidateOkInvoke(i) \/ ValidateOkNoHandler(i)

\* C14: validateToolUse runs for a block only if the shape checks (non-empty
\* id, string name, JSON-serializable object input, boolean partial) pass for
\* that block, and a tool handler is invoked only in a step in which
\* validateToolUse has run and passed for its block.
C14_GateAfterShapeChecksBeforeHandler ==
    [][/\ \A i \in 1..Len(frames) : GateRuns(i) => ShapeChecksPass(frames[i].block)
       /\ handlerLog' # handlerLog =>
              \E i \in 1..Len(frames) :
                  /\ ValidateOkInvoke(i)
                  /\ handlerLog' = Append(handlerLog, frames[i].block.id)]_vars

\* The second half alone: a handler is invoked only right after validateToolUse
\* has passed for its block.
GateBeforeHandler ==
    [][handlerLog' # handlerLog =>
          \E i \in 1..Len(frames) :
              /\ ValidateOkInvoke(i)
              /\ handlerLog' = Append(handlerLog, frames[i].block.id)]_vars

\* C15: an invocation that is about to validate or has started the handler of
\* a tool other than browser_action has had its closeBrowser call return; one
\* dispatching browser_action has closed nothing; and nothing is closed before
\* the imports are done.
C15_BrowserClosedBeforeOtherTools ==
    \A i \in 1..Len(frames) :
        /\ frames[i].pc \in {"getState", "tool"} =>
               (frames[i].browserClosed <=> XmlRootName(frames[i].block) # "browser_action")
        /\ frames[i].pc \in {"import", "closeBrowser", "say", "legacy"} =>
               ~frames[i].browserClosed

\* The handler of read_file is running and the session was closed before.
C15_Witness ==
    \E i \in 1..Len(frames) :
        /\ frames[i].pc = "tool"
        /\ XmlRootName(frames[i].block) = "read_file"
        /\ frames[i].browserClosed
        /\ handlerLog = <<frames[i].block.id>>

\* The dispatch of the block at the cursor ends in this step with a response.
DispatchResponds == Len(userMessageContent') > Len(userMessageContent)

\* What the dispatch of a block without a handler must come to: one entry that
\* is not a tool's result, under the block's call id, no handler invoked, the
\* lock released and the cursor moved on.
NoHandlerOutcome ==
    /\ \E e \in {ConversionErrorResponse(AnthropicToolUse(currentStreamingContentIndex + 1, "none", FALSE, 1)),
                 ValidationErrorResponse(AnthropicToolUse(currentStreamingContentIndex + 1, "none", FALSE, 1)),
                 ToolErrorResponse(AnthropicToolUse(currentStreamingContentIndex + 1, "none", FALSE, 1))}
                \cup {ToolResponse(currentStreamingContentIndex + 1, "not implemented", b) :
                         b \in BOOLEAN} :
           userMessageContent' = Append(userMessageContent, e)
    /\ handlerLog' = handlerLog
    /\ \A h \in 1..Len(handlerLog) : handlerLog[h] # currentStreamingContentIndex + 1
    /\ ~presentAssistantMessageLocked'
    /\ currentStreamingContentIndex' = currentStreamingContentIndex + 1

\* C16: the dispatch of a tool-invocation block whose name has no handler ends
\* with one descriptive error entry appended to the transcript under the
\* block's call id, no handler having been invoked, the lock released and the
\* cursor advanced.
C16_UnknownToolErrorOutcome ==
    [][(/\ DispatchResponds
        /\ currentStreamingContentIndex < Len(assistantMessageContent)
        /\ BlockAt(currentStreamingContentIndex).name \notin HandlerNames)
       => NoHandlerOutcome]_vars

\* What C26 expects at the end of the pass of a block whose snapshot has the
\* given partial flag: the cursor moves by exactly one when the block is
\* complete or a flag is set and stays otherwise, and when it has moved and a
\* block is left the next pass is called at once.
AdvanceRule(partial) ==
    /\ currentStreamingContentIndex' =
           IF ~partial \/ didRejectTool' \/ didAlreadyUseTool'
           THEN currentStreamingContentIndex + 1
           ELSE currentStreamingContentIndex
    /\ (/\ currentStreamingContentIndex' = currentStreamingContentIndex + 1
        /\ currentStreamingContentIndex' < Len(assistantMessageContent'))
       => ctl' = "call"

\* C26: after a text block or a structured tool call is handled (its pass
\* returns, having suspended or not), the cursor advances by exactly one if
\* the block is not partial or didRejectTool or didAlreadyUseTool is set, and
\* is left unchanged otherwise; when blocks remain after an advance, the next
\* pass starts immediately.
C26_CursorAdvanceRule ==
    [][/\ (Enter /\ frames' = frames /\ lastResult' \in {"skipped", "fallback"})
          => AdvanceRule(BlockAt(currentStreamingContentIndex).partial)
       /\ \A i \in 1..Len(frames) :
             (Resume /\ frames[i].pc # "legacy" /\ frames' = RemoveAt(frames, i))
             => AdvanceRule(frames[i].block.partial)]_vars

-----------------------------------------------------------------------------
\* The accumulator's properties.

\* C17: when completeToolUse(id) is called for a call started with an object
\* and not yet completed, and the serialization of the initial arguments
\* (nothing for the empty object) followed by the fragments offered since, in
\* order, is JSON, then it returns a chunk whose input is JSON.parse of that
\* text, and the call is marked completed.
C17_CompleteReturnsParsedConcatenation ==
    [][\A id \in AccIds :
          (/\ accLast'.op = "complete" /\ accLast'.id = id
           /\ Registered(id) /\ ~Pending(id).completed
           /\ completeToolUse
           /\ accFed[id].init = "object"
           /\ ~JsonParseThrows(accFed[id].text))
          => /\ accLast'.ret.type = "anthropic_tool_use"
             /\ accLast'.ret.id = id
             /\ accLast'.ret.input = JsonParse(accFed[id].text)
             /\ Registered(id)'
             /\ Pending(id)'.completed]_vars

\* The call was started with {}, got the fragments {"path":"x and x"} and was
\* completed with the arguments {path: "xx"}.
C17_Witness ==
    /\ accLast.op = "complete"
    /\ accLast.id = 1
    /\ accLast.ret.input = PathObject(<<"x", "x">>)
    /\ accFed[1].init = "object"
    /\ accFed[1].text = <<"{", "K", "q", "x", "x", "q", "}">>
    /\ Pending(1).completed

\* C18: addToolUseStart called with the empty id, or with initial arguments
\* that are not a JSON object (an array, a string, null, an object that cannot
\* be serialized), registers nothing and leaves every registered call as it was.
C18_InvalidStartIsNoOp ==
    [][(/\ addToolUseStart
        /\ accLast'.op = "start"
        /\ (accLast'.id = NoId \/ accLast'.arg # "object"))
       => pendingToolUses' = pendingToolUses]_vars

\* C19: addToolUseDelta(id, fragment) appends the fragment to the text of the
\* call registered under id when there is one and it is not completed, and
\* changes nothing then but that text; for an unknown id or a completed call
\* it changes nothing at all.
C19_DeltaAppendsVerbatim ==
    [][addToolUseDelta =>
          IF Registered(accLast'.id) /\ ~Pending(accLast'.id).completed
          THEN pendingToolUses' =
                   [pendingToolUses EXCEPT ![SlotOf(accLast'.id)].inputJson =
                        @ \o accLast'.frag]
          ELSE pendingToolUses' = pendingToolUses]_vars

\* A fragment was appended to call 1 while call 2 is registered too.
C19_Witness ==
    /\ accLast.op = "delta"
    /\ accLast.id = 1
    /\ Registered(1) /\ Registered(2)
    /\ Pending(1).inputJson = <<"{", "K", "q", "x">>
    /\ ~Pending(1).completed
    /\ Pending(2).inputJson = <<"{", "}">>

\* C20: when the accumulated text of the call is not JSON, completeToolUse(id)
\* returns null and leaves every call as it was, the call under id still
\* registered and not completed, so that a delta for it is still accepted; for
\* an unregistered id it returns null and changes nothing.
C20_FailedCompleteChangesNothing ==
    [][(/\ completeToolUse
        /\ (Registered(accLast'.id) => JsonParseThrows(Pending(accLast'.id).inputJson)))
       => /\ accLast'.ret = Null
          /\ pendingToolUses' = pendingToolUses
          /\ Registered(accLast'.id) =>
                 /\ ~Pending(accLast'.id).completed
                 /\ DeltaAccepts(accLast'.id)]_vars

\* completeToolUse returned the arguments {path: "xx"} for a call for which it
\* had returned null before: the later fragment was accepted and the later
\* completion succeeded.
C20_Witness ==
    /\ accLast.op = "complete"
    /\ accLast.id = 1
    /\ accLast.ret.type = "anthropic_tool_use"
    /\ accLast.ret.input = PathObject(<<"x", "x">>)
    /\ accFed[1].failed
    /\ Pending(1).completed

\* C21: getCompletedToolUses returns the completed calls in the order they
\* were started and removes them from the accumulator, so that a call is
\* returned by one drain at most and a drain right after a drain returns
\* nothing.
C21_DrainReturnsAndRemoves ==
    [][getCompletedToolUses =>
          /\ accLast'.drained = CompletedChunks
          /\ pendingToolUses' = SelectSeq(pendingToolUses, LAMBDA e : ~e.completed)
          /\ CompletedChunks' = <<>>]_vars

\* C22: validateAnthropicToolUse accepts a value only if it is an object with
\* the anthropic_tool_use type tag, a string id of at least one character, a
\* string name, a JSON-serializable object as input and a boolean partial flag;
\* validateToolUseId accepts exactly the strings of at least one character.
C22_ValidatorsAcceptOnlyWellFormed ==
    /\ (Applied("validateAnthropicToolUse") /\ call.ret) =>
          /\ call.arg.whole = "object"
          /\ call.arg.type = "anthropic_tool_use"
          /\ call.arg.id = "nonempty"
          /\ call.arg.name = "string"
          /\ call.arg.input = "object"
          /\ call.arg.partial = "boolean"
    /\ Applied("validateToolUseId") => (call.ret <=> call.arg = "nonempty")

\* What C23 expects of a sanitized name: the length of the name, an
\* underscore wherever the name has a character outside [A-Za-z0-9_-], and
\* the name's own character everywhere else.
SanitizedFrom(name, out) ==
    /\ Len(out) = Len(name)
    /\ \A i \in 1..Len(name) :
          out[i] = IF name[i] \in {"r", "F", "7", "_", "-"} THEN name[i] ELSE "_"

\* C23: sanitizeToolName replaces every character outside [A-Za-z0-9_-] with an
\* underscore and changes nothing else (same length, sanitizing twice is
\* sanitizing once, a valid name comes back as it is), and addToolUseStart
\* accepts a call whose name needed sanitizing and registers it under the
\* sanitized name.
C23_SanitizedNameRegistered ==
    /\ Applied("sanitizeToolName") =>
          /\ SanitizedFrom(call.arg, call.ret)
          /\ sanitizeToolName(call.ret) = call.ret
          /\ SanitizedFrom(call.arg, call.arg) => call.ret = call.arg
    /\ Applied("addToolUseStart") =>
          /\ call.ret # Null
          /\ SanitizedFrom(call.arg, call.ret.name)

\* A start whose name has a blank in the middle was registered under the name
\* with an underscore in its place.
C23_Witness ==
    /\ Applied("addToolUseStart")
    /\ call.arg = <<"r", " ", "7">>
    /\ call.ret.name = <<"r", "_", "7">>

\* C24: for any call id, text and flag, convertXmlResultToAnthropicToolResponse
\* returns a tool_result that carries the call id, the text as content (the
\* empty string when the text is empty or missing) and the flag as is_error.
C24_ResultConvertedAsGiven ==
    Applied("convertXmlResultToAnthropicToolResponse") =>
        /\ call.ret.type = "tool_result"
        /\ call.ret.tool_use_id = call.arg.toolUseId
        /\ call.ret.content = (IF call.arg.result \in {"", "<missing>"} THEN ""
                               ELSE call.arg.result)
        /\ call.ret.is_error = call.arg.isError

\* An empty result that is no error was converted to an empty content that is
\* no error.
C24_Witness ==
    /\ Applied("convertXmlResultToAnthropicToolResponse")
    /\ call.arg.result = ""
    /\ ~call.arg.isError
    /\ call.ret.content = ""
    /\ ~call.ret.is_error

\* The keys of the child tags C25 expects, in order: none for a null or
\* undefined value, one per element for an array of strings, one otherwise.
RECURSIVE ExpectedChildKeys(_)
ExpectedChildKeys(input) ==
    IF input = <<>> THEN <<>>
    ELSE LET e == Head(input)
             n == IF e.v.kind \in {"null", "undefined"} THEN 0
                  ELSE IF e.v.kind = "array" THEN Len(e.v.items)
                  ELSE 1
         IN [j \in 1..n |-> e.key] \o ExpectedChildKeys(Tail(input))

\* C25: convertAnthropicToolUseToXml renders, inside the tag named after the
\* tool and in key order, one child tag for every argument key whose value is
\* neither null nor undefined, also for the keys that accompany an args array;
\* an array renders as one same-named tag per element; a string v under key k
\* renders as <k>, newline, v, newline, </k>.
C25_OneChildTagPerArgument ==
    Applied("convertAnthropicToolUseToXml") =>
        /\ call.ret.key = "read_file"
        /\ [j \in 1..Len(call.ret.children) |-> call.ret.children[j].key]
              = ExpectedChildKeys(call.arg)
        /\ \A i \in 1..Len(call.arg) :
              call.arg[i].v.kind = "string" =>
                  \E j \in 1..Len(call.ret.children) :
                      /\ call.ret.children[j].key = call.arg[i].key
                      /\ call.ret.children[j].layout = "lines"
                      /\ call.ret.children[j].text = call.arg[i].v.s

-----------------------------------------------------------------------------
\* The tool handler's properties.

\* The entries of the tool handler's map other than the one in slot k are the
\* same after the step, and no entry is added or removed.
OnlySlotChanges(k) ==
    /\ Len(streamingToolUses') = Len(streamingToolUses)
    /\ \A j \in 1..Len(streamingToolUses) :
          j # k => streamingToolUses'[j] = streamingToolUses[j]

\* C28: in handleToolUseDelta the accumulated text of the current call grows
\* by the fragment; when the text does not parse, the call's input and
\* completion flag are exactly as they were; when it parses, the input is the
\* parse of the whole text.
C28_FailedParseKeepsInput ==
    [][(handleToolUseDelta /\ DeltaReaches) =>
          LET k == Streaming_slot(currentStreamingToolId)
              before == streamingToolUses[k]
              after == streamingToolUses'[k]
          IN /\ after.accumulatedJson = before.accumulatedJson \o handlerLast'.frag
             /\ after.id = before.id
             /\ after.name = before.name
             /\ after.isComplete = before.isComplete
             /\ IF JsonParseThrows(after.accumulatedJson)
                THEN after.input = before.input
                ELSE after.input = JsonParse(after.accumulatedJson)]_vars

\* A call whose first fragment did not parse has, after the fragment that
\* made the text parse, the parse of the whole text as its input.
C28_Witness ==
    /\ handlerLast.op = "delta"
    /\ \E k \in 1..Len(streamingToolUses) :
          /\ streamingToolUses[k].accumulatedJson = <<"{", "K", "q", "x", "x", "q", "}">>
          /\ streamingToolUses[k].input = PathObject(<<"x", "x">>)
          /\ ~streamingToolUses[k].isComplete

\* C29: a delta modifies at most one call, the one most recently started,
\* and never a call that is marked complete; with no current call, or with
\* the current call drained, it changes nothing.
C29_DeltaOnlyToOpenCurrentCall ==
    [][handleToolUseDelta =>
          IF /\ DeltaReaches
             /\ ~Streaming_get(currentStreamingToolId).isComplete
          THEN OnlySlotChanges(Streaming_slot(currentStreamingToolId))
          ELSE streamingToolUses' = streamingToolUses]_vars

-----------------------------------------------------------------------------
\* The configuration manager's properties.

C32_ReadyOnlyWhenStreamDrained ==
    userMessageContentReady => (didCompleteReadingStream /\ AtEnd)

\* C33: the replacement of the live block at the cursor by its tag-encoded
\* form is undone before the pass ends, on every path: whenever no pass is in
\* progress, every structured tool block the stream delivered is still a
\* structured block in the live sequence.
C33_ReplacementUndone ==
    NoPassInProgress =>
        \A k \in 1..Len(delivered) :
            delivered[k] = "anthropic_tool_use" => IsToolBlock(assistantMessageContent[k])

\* C34: in every state of a turn the cursor is between 0 and the number of
\* blocks; it never decreases and changes only by +1, at most once per pass,
\* in the step that ends a pass which held the lock and has released it.
C34_CursorWithinBounds ==
    [][/\ currentStreamingContentIndex \in 0..Len(assistantMessageContent)
       /\ currentStreamingContentIndex' \in 0..Len(assistantMessageContent')
       /\ currentStreamingContentIndex' # currentStreamingContentIndex =>
              /\ currentStreamingContentIndex' = currentStreamingContentIndex + 1
              /\ ended' = ended \cup {currentStreamingContentIndex}
              /\ currentStreamingContentIndex \notin ended
              /\ ~presentAssistantMessageLocked'
              /\ \/ /\ ~presentAssistantMessageLocked
                     /\ frames' = frames
                     /\ Enter
                  \/ /\ presentAssistantMessageLocked
                     /\ Len(frames') = Len(frames) - 1
                     /\ Resume]_vars

\* Both blocks of a turn have been passed, the first one by the pass that
\* awaited its tool handler.
C34_Witness ==
    /\ currentStreamingContentIndex = 2
    /\ Len(assistantMessageContent) = 2
    /\ ended = {0, 1}
    /\ Len(handlerLog) = 1
    /\ ~presentAssistantMessageLocked

\* C35: the response appended after a tool handler returns has is_error = true
\* only if the tool reported a failure (handleError was called, or the name
\* had no handler): a result the tool pushed as a success is never flagged
\* because of the words its text holds.
C35_ErrorFlagOnlyOnFailure ==
    \A k \in 1..Len(userMessageContent) :
        userMessageContent[k].content = "tool result" => ~userMessageContent[k].is_error

\* C39: every tool name advertised in EXTEND_ANTHROPIC_TOOLS has a handler in
\* the dispatcher: no validated block naming an advertised tool is answered
\* with the "not implemented in Anthropic native mode" outcome.
C39_AdvertisedToolsHaveHandlers ==
    \A k \in 1..Len(userMessageContent) :
        userMessageContent[k].content = "not implemented" =>
            assistantMessageContent[userMessageContent[k].tool_use_id].name
                \notin EXTEND_ANTHROPIC_TOOLS

-----------------------------------------------------------------------------
\* C36: a call started with a valid id and an object as initial arguments,
\* and completed before any fragment was added, completes with a chunk whose
\* input is the initial arguments, also when they are the empty object.
C36_CompleteWithoutDelta ==
    [][\A id \in AccIds, input \in {EmptyObject, PathObject(<<>>)} :
          (/\ accLast'.op = "complete" /\ accLast'.id = id
           /\ Registered(id) /\ ~Pending(id).completed
           /\ completeToolUse
           /\ accFed[id].init = "object"
           /\ accFed[id].text = (IF input = EmptyObject THEN <<>> ELSE JsonStringify(input)))
          => /\ accLast'.ret.type = "anthropic_tool_use"
             /\ accLast'.ret.id = id
             /\ accLast'.ret.input = input
             /\ Pending(id)'.completed]_vars

-----------------------------------------------------------------------------
\* C37: every call getCompletedToolUses returns has an input that reflects all
\* the fragments received for it: a call whose fragments are not JSON is not
\* returned with the arguments it had before them, also when it was marked
\* complete by markToolUseComplete or markAllToolUsesComplete.
C37_ReturnedInputReflectsFragments ==
    \A k \in 1..Len(handlerLast.drained) :
        LET e == handlerLast.drained[k]
        IN  e.accumulatedJson # <<>> =>
                /\ ~JsonParseThrows(e.accumulatedJson)
                /\ e.input = JsonParse(e.accumulatedJson)

\* C38: a lookup of a name under which a converted call's id is still to be
\* handed out returns one of those ids, and a lookup of a name with none left
\* returns null: each converted call's id is returned exactly once, also when
\* two calls of one name were converted before the first lookup.
C38_EachIdHandedOutOnce ==
    [][\A toolName \in ConvertedNames :
          (handlerLast'.op = "lookup" /\ getToolUseIdByName(toolName))
          => IF OutstandingFor(toolName) = {}
             THEN handlerLast'.id = NoId
             ELSE handlerLast'.id \in {outstanding[k].id : k \in OutstandingFor(toolName)}]_vars

-----------------------------------------------------------------------------
\* The settings form's properties.

\* C31: from the click on Save until the codeIndexSettingsSaved response
\* arrives the component is in the saving state with the Save button
\* disabled, whatever edits or timers occur in between; the Save button is
\* disabled whenever there are no unsaved changes; and a field edit marks the
\* settings unsaved.
C31_SavingUntilResponse ==
    /\ saveRequests # <<>> => (saveStatus = "saving" /\ SaveDisabled)
    /\ ~hasUnsavedChanges => SaveDisabled
    /\ settingsLast.op = "edit" => hasUnsavedChanges

\* C40: after a failed save response, with no other save under way, the
\* edits that were sent are still unsaved: the Save button is enabled without
\* a new edit, and a secret field the failed message carried is still marked
\* modified, so that the next save message carries it.
C40_FailedSaveKeepsEdits ==
    (/\ settingsLast.op = "saved"
     /\ ~settingsLast.success
     /\ saveRequests = <<>>)
    => /\ ~SaveDisabled
       /\ \A field \in SecretFields :
              settingsLast.answered[field] # NoText => field \in modifiedFields

====
